---- MODULE Spec2Model ----
(***************************************************************************)
(* Libre-Network: a model of the two node programs of the repository.      *)
(*                                                                         *)
(*   - the desktop node, class Main of libre_network_gui.py, which keeps   *)
(*     its state in JSON files under libre_data/ and runs the mining       *)
(*     round (mine_cycle, UPDATE_REQUEST, SIGNATURE, FINAL_UPDATE);        *)
(*   - the headless node, class LibreNode of main.py, which keeps its      *)
(*     state in SQLite through storage.py and blockchain.py.               *)
(*                                                                         *)
(* Conventions of the encoding.                                            *)
(*   - A JSON object is a function from its keys; json.dumps(sort_keys)    *)
(*     makes the hash independent of key order, so is a function.          *)
(*   - tx_pool.json is an insertion-ordered dict that the executor walks   *)
(*     in order: a sequence of transactions with distinct tx_id.           *)
(*   - SHA-256 is collision free: Hash(x) is a record around its preimage. *)
(*   - A list of signatures is only ever measured (len) and searched for   *)
(*     its signers, never indexed: it is the bag of its signers.  The      *)
(*     signature bytes are never inspected by the code (the verifier is a  *)
(*     stub that is not called), so they are left out.                     *)
(*   - Balances are counted in millionths (the smallest fee, 0.000001).    *)
(*   - An address, 16 hex digits, is the number it writes; None is 0.      *)
(***************************************************************************)
EXTENDS Bags, FiniteSets, Integers, Sequences, TLC

(***************************************************************************)
(* Bounds of the model.                                                    *)
(***************************************************************************)
\* mine_cycle runs that reach the executor
MaxCycles == 1
\* block files written by the desktop node
MaxBlocks == 2
\* SIGNATURE messages of a signer outside the group, per proposal
MaxOutsiderSigs == 1
\* SIGNATURE messages that repeat a signer, per proposal
MaxRepeatedSigs == 1
\* seconds of wall-clock time, 1..MaxTime
MaxTime == 1
\* block numbers of the STATE_UPDATE messages sent to the headless node
MaxHeight == 3
\* connection threads of the gossip layer
MaxConnections == 2
\* envelope ids on the wire, 1..MaxEnvelopes
MaxEnvelopes == 1
\* times the age of an envelope id can pass SEEN_TTL
MaxExpiries == 1
MaxReceipts == 3
MaxSeed == 9
TailValues == 2

(***************************************************************************)
(* Program constants.                                                      *)
(***************************************************************************)
DEFAULT_LIFE == 20000000
\* len(...) >= 100, the signature threshold
SIGNATURES_REQUIRED == 100
\* len(miner_addresses) <= 100, the committee size
COMMITTEE_SIZE == 100
\* the mining reward, "amount": 100
REWARD == 100
\* entries of the miner pool that make a new group
GROUP_THRESHOLD == 1000
\* millionths per coin
MICRO == 1000000

None == 0
Times == 1..MaxTime

RewardIds == <<"reward_1", "reward_2", "reward_3", "reward_4">>
reward_id(ts) == RewardIds[ts]

(***************************************************************************)
(* Hashing.                                                                *)
(***************************************************************************)
Hash(x) == [sha256 |-> x]
\* "0" * 64
ZeroHash == [sha256 |-> [zero |-> TRUE]]

\* hashlib.sha256(json.dumps(state, sort_keys=True).encode()).hexdigest()
StateHash(state) == Hash(state)

(***************************************************************************)
(* Committee selection.                                                    *)
(***************************************************************************)
\* random.sample(miner_addresses, 100): some 100 of the addresses.  Which
\* ones depends on the generator and on the order of the list.
Sample(S, n) == CHOOSE T \in SUBSET S : Cardinality(T) = n

get_selected_miners(state_hash, miners) ==
    IF Cardinality(DOMAIN miners) <= COMMITTEE_SIZE
    THEN DOMAIN miners
    ELSE Sample(DOMAIN miners, COMMITTEE_SIZE)

\* The same on the list of the keys, in the order the dict holds them.
\* int(state_hash, 16): the model's digest of a number is that number.
Seed(state_hash) == state_hash.sha256

\* state_hash[:16]: the digest without its last digits
SeedOfPrefix(state_hash) == state_hash.sha256 \div TailValues

\* a choice of n positions that may take a position twice
sample_with_replacement(population, n, seed) ==
    [j \in 1..n |-> population[((seed * j) % Len(population)) + 1]]

\* random.seed(seed); random.sample(population, n): the entries at n
\* distinct positions of the list; which positions is a function of the
\* seed and of the length of the list.  The model's generator takes the n
\* positions that follow the seed.
sample(population, n, seed) ==
    [j \in 1..n |-> population[((seed + j - 1) % Len(population)) + 1]]

selected_of_list(seed, miner_addresses) ==
    IF Len(miner_addresses) <= COMMITTEE_SIZE
    THEN miner_addresses
    ELSE sample(miner_addresses, COMMITTEE_SIZE, seed)

\* get_selected_miners of the desktop node, and of class Consensus
get_selected_miners_list(state_hash, miner_addresses) ==
    selected_of_list(Seed(state_hash), miner_addresses)

Consensus_get_selected_miners(state_hash, miner_addresses) ==
    selected_of_list(SeedOfPrefix(state_hash), miner_addresses)

(***************************************************************************)
(* The executor.                                                           *)
(***************************************************************************)
\* the decrement without the removal
decrease_life_keeping(us) ==
    [a \in DOMAIN us |-> [us[a] EXCEPT !.life = @ - 1]]

decrease_life(us) ==
    LET dec == [a \in DOMAIN us |-> [us[a] EXCEPT !.life = @ - 1]]
    IN  [a \in {b \in DOMAIN us : dec[b].life > 0} |-> dec[a]]

NewUser == [balance |-> 0, nonce |-> 0, life |-> DEFAULT_LIFE]

\* if valid: users[sender]["nonce"] += 1; executed[txid] = tx
Executed(st, us, mp, tx) ==
    [users      |-> [us EXCEPT ![tx.from].nonce = @ + 1],
     miner_pool |-> mp,
     executed   |-> (tx.tx_id :> tx) @@ st.executed]

\* one turn of the loop, were the fee of a transfer paid to the receiver
ExecuteTx_fee_to_receiver(st, tx, ts) ==
    LET us     == st.users
        mp     == st.miner_pool
        sender == tx.from
    IN  IF sender \notin DOMAIN us THEN st
        ELSE IF tx.type = "transfer" THEN
            IF tx.to \in DOMAIN us /\ us[sender].balance >= tx.amount + tx.fee
            THEN LET u1 == [us EXCEPT ![sender].balance = @ - (tx.amount + tx.fee)]
                     u2 == [u1 EXCEPT ![tx.to].balance = @ + tx.amount + tx.fee]
                 IN  Executed(st, u2, mp, tx)
            ELSE st
        ELSE IF tx.type = "new_account" THEN
            IF tx.to \notin DOMAIN us /\ us[sender].balance >= tx.fee
            THEN LET u1 == [us EXCEPT ![sender].balance = @ - tx.fee]
                     u2 == (tx.to :> NewUser) @@ u1
                 IN  Executed(st, u2, mp, tx)
            ELSE st
        ELSE IF tx.type = "join_pool" THEN
            IF us[sender].balance >= tx.fee
            THEN LET u1  == [us EXCEPT ![sender].balance = @ - tx.fee]
                     mp1 == IF sender \in DOMAIN mp THEN mp ELSE (sender :> ts) @@ mp
                 IN  Executed(st, u1, mp1, tx)
            ELSE st
        ELSE st

\* one turn of the loop over the pool
ExecuteTx(st, tx, ts) ==
    LET us     == st.users
        mp     == st.miner_pool
        sender == tx.from
    IN  IF sender \notin DOMAIN us THEN st
        ELSE IF tx.type = "transfer" THEN
            IF tx.to \in DOMAIN us /\ us[sender].balance >= tx.amount + tx.fee
            THEN LET u1 == [us EXCEPT ![sender].balance = @ - (tx.amount + tx.fee)]
                     u2 == [u1 EXCEPT ![tx.to].balance = @ + tx.amount]
                 IN  Executed(st, u2, mp, tx)
            ELSE st
        ELSE IF tx.type = "new_account" THEN
            IF tx.to \notin DOMAIN us /\ us[sender].balance >= tx.fee
            THEN LET u1 == [us EXCEPT ![sender].balance = @ - tx.fee]
                     u2 == (tx.to :> NewUser) @@ u1
                 IN  Executed(st, u2, mp, tx)
            ELSE st
        ELSE IF tx.type = "join_pool" THEN
            IF us[sender].balance >= tx.fee
            THEN LET u1  == [us EXCEPT ![sender].balance = @ - tx.fee]
                     mp1 == IF sender \in DOMAIN mp THEN mp ELSE (sender :> ts) @@ mp
                 IN  Executed(st, u1, mp1, tx)
            ELSE st
        ELSE st

RECURSIVE ExecutePool(_, _, _, _)
ExecutePool(st, pool, i, ts) ==
    IF i > Len(pool) THEN st
    ELSE ExecutePool(ExecuteTx(st, pool[i], ts), pool, i + 1, ts)

RewardTx(miner, ts) ==
    [tx_id |-> reward_id(ts), type |-> "reward", from |-> None, to |-> miner,
     amount |-> REWARD * MICRO, fee |-> 0]

EmptyState ==
    [users |-> <<>>, miner_pool |-> <<>>,
     current_group |-> [group_id |-> 0, miners |-> <<>>, created_at |-> 0],
     tx_executed |-> <<>>]

\* execute_transactions(miner) on the files (us, grp, mp, pool) at second ts:
\* ok, the proposed state, and the users file as decrease_life left it.
execute_transactions(miner, us, grp, mp, pool, ts) ==
    IF miner \notin DOMAIN us \/ miner \notin DOMAIN grp.miners
    THEN [ok |-> FALSE, state |-> EmptyState, users_file |-> us]
    ELSE LET us1 == decrease_life(us) IN
         IF miner \notin DOMAIN us1
         THEN [ok |-> FALSE, state |-> EmptyState, users_file |-> us1]
         ELSE LET st == ExecutePool([users |-> us1, miner_pool |-> mp, executed |-> <<>>],
                                    pool, 1, ts)
                  rw == RewardTx(miner, ts)
              IN  [ok    |-> TRUE,
                   state |-> [users         |-> [st.users EXCEPT ![miner].balance = @ + REWARD * MICRO],
                              miner_pool    |-> st.miner_pool,
                              current_group |-> grp,
                              tx_executed   |-> (rw.tx_id :> rw) @@ st.executed],
                   users_file |-> us1]

\* mine(miner): the proposed state and its hash
mine(miner, us, grp, mp, pool, ts) ==
    LET r == execute_transactions(miner, us, grp, mp, pool, ts)
    IN  [ok |-> r.ok, state |-> r.state, state_hash |-> StateHash(r.state),
         users_file |-> r.users_file]

(***************************************************************************)
(* The validator of a proposal.                                            *)
(***************************************************************************)
verify_proposed_state(miner, proposed_state) ==
    LET executed == proposed_state.tx_executed
        rewards  == {id \in DOMAIN executed : executed[id].type = "reward"}
    IN  /\ Cardinality(rewards) = 1
        /\ \A id \in rewards : executed[id].to = miner /\ executed[id].amount = REWARD * MICRO
        /\ miner \in DOMAIN proposed_state.current_group.miners

(***************************************************************************)
(* The desktop node (class Main).                                          *)
(***************************************************************************)
VARIABLES
    users,                 \* libre_data/users.json
    miner_pool,            \* libre_data/miner_pool.json
    current_group,         \* libre_data/current_group.json
    tx_executed,           \* libre_data/tx_executed.json
    tx_pool,               \* libre_data/tx_pool.json
    blocks,                \* libre_data/blocks/block_<n>.json, n = 1..Len(blocks)
    pending_updates,       \* self.pending_updates: hash -> update_data
    collected_signatures,  \* self.collected_signatures: hash -> signatures
    is_mining,             \* self.is_mining
    signature_timer,       \* self.signature_timer is active
    rebuild_timer,         \* self.rebuild_timer is active
    addr,                  \* self.addr (with self.private_key)
    sent,                  \* the envelopes handed to self.p2p
    cycles,                \* history: runs of the executor so far
    signed,                \* history: the hashes signed since the last install
    abandoned,             \* history: the proposals a timeout or an install overtook
    install,               \* a call of apply_final_state taken write by write
    event                  \* history: the message the last step handled

main_vars == <<users, miner_pool, current_group, tx_executed, tx_pool, blocks,
               pending_updates, collected_signatures, is_mining, signature_timer,
               rebuild_timer, addr, sent, cycles>>

files == <<users, miner_pool, current_group, tx_executed, tx_pool, blocks>>

\* What a step records of the FINAL_UPDATE it handled: whether the list is
\* short of SIGNATURES_REQUIRED entries, whether it names a signer outside
\* the committee of the receiver's group, whether the hash is the hash of
\* the state.
NoEvent ==
    [op |-> "none", short |-> FALSE, foreign |-> FALSE, hash_ok |-> FALSE,
     valid |-> FALSE]

(***************************************************************************)
(* The data directory at start.  ensure() writes an empty users file and   *)
(* a group 1 without miners when the directory is new; a node of a running *)
(* network starts from the files it was given: a group of COMMITTEE_SIZE   *)
(* miners, of which 1 (this node's wallet) and 2 hold accounts.            *)
(***************************************************************************)
NetworkMiners == 1..COMMITTEE_SIZE
Outsider == COMMITTEE_SIZE + 1

FreshGroup == [group_id |-> 1, miners |-> <<>>, created_at |-> 1]
NetworkGroup == [group_id |-> 1, miners |-> [a \in NetworkMiners |-> 1], created_at |-> 1]
NetworkUsers ==
    (1 :> [balance |-> 200 * MICRO, nonce |-> 0, life |-> DEFAULT_LIFE]) @@
    (2 :> [balance |-> 0, nonce |-> 0, life |-> DEFAULT_LIFE])

\* no call of apply_final_state is under way
NoInstall ==
    [pc |-> "idle", state |-> EmptyState, signatures |-> EmptyBag,
     before |-> <<<<>>, <<>>, FreshGroup, <<>>, 0>>]

MainInit ==
    /\ \/ users = <<>> /\ current_group = FreshGroup
       \/ users = NetworkUsers /\ current_group = NetworkGroup
    /\ miner_pool = <<>>
    /\ tx_executed = <<>>
    /\ tx_pool = <<>>
    /\ blocks = <<>>
    /\ pending_updates = <<>>
    /\ collected_signatures = <<>>
    /\ is_mining = FALSE
    /\ signature_timer = FALSE
    /\ rebuild_timer = FALSE
    /\ addr = None
    /\ sent = {}
    /\ cycles = 0
    /\ signed = {}
    /\ abandoned = {}
    /\ install = NoInstall
    /\ event = NoEvent

(***************************************************************************)
(* Envelopes.                                                              *)
(***************************************************************************)
UpdateRequest(h, state, miner) ==
    [type |-> "UPDATE_REQUEST", state_hash |-> h, state |-> state, signer |-> miner,
     signatures |-> EmptyBag]
Signature(h, signer) ==
    [type |-> "SIGNATURE", state_hash |-> h, state |-> EmptyState, signer |-> signer,
     signatures |-> EmptyBag]
FinalUpdate(h, state, sigs) ==
    [type |-> "FINAL_UPDATE", state_hash |-> h, state |-> state, signer |-> None,
     signatures |-> sigs]

(***************************************************************************)
(* Inputs of the environment.                                              *)
(***************************************************************************)
\* the wallets a user of this node may log in with
LoginInputs == {1}
\* the remote miners that send proposals; Outsider is in no group
RemoteMiners == {2, Outsider}

\* A snapshot that no execution produced: it gives Outsider a balance, names
\* 1 and Outsider the miners of the group and rewards Outsider.
ForgedState ==
    [users |-> (Outsider :> [balance |-> 1000 * MICRO, nonce |-> 0, life |-> DEFAULT_LIFE]),
     miner_pool |-> <<>>,
     current_group |-> [group_id |-> 1, miners |-> (1 :> 1) @@ (Outsider :> 1),
                        created_at |-> 1],
     tx_executed |-> (reward_id(1) :> RewardTx(Outsider, 1))]

\* The proposals of a remote miner that holds the same files as this node
RemoteRuns ==
    {execute_transactions(m, users, current_group, miner_pool, tx_pool, ts) :
        m \in RemoteMiners, ts \in Times}
RemoteProposals == {r.state : r \in {x \in RemoteRuns : x.ok}}

\* The first proposal of miner 2 on the network's files: stale on a node
\* whose files have moved on, foreign on a node that never had them
StaleState == execute_transactions(2, NetworkUsers, NetworkGroup, <<>>, <<>>, 1).state

StateInputs == RemoteProposals \cup {ForgedState, StaleState}

\* n signatures of signer s
Copies(s, n) == [x \in {s} |-> n]
\* one signature of each signer in S
OneEach(S) == [x \in S |-> 1]

\* The signature lists of a FINAL_UPDATE: of every miner of the network's
\* group; of all but one; of all but one with one of them twice; of all but
\* one and of Outsider; of all and of Outsider; of Outsider only.
SignatureListInputs ==
    {OneEach(NetworkMiners),
     OneEach(NetworkMiners \ {1}),
     OneEach(NetworkMiners \ {1}) (+) Copies(2, 1),
     OneEach(NetworkMiners \ {1}) (+) Copies(Outsider, 1),
     OneEach(NetworkMiners) (+) Copies(Outsider, 1),
     Copies(Outsider, SIGNATURES_REQUIRED)}

Min(S) == CHOOSE x \in S : \A y \in S : x <= y

\* The signers of the next SIGNATURE for a proposal that holds sigs: the
\* miners of the network's group answer in the order of their addresses;
\* one of them may answer again, and Outsider may answer.
SignerInputs(sigs) ==
    LET had      == BagToSet(sigs)
        fresh    == NetworkMiners \ had
        repeated == BagCardinality(sigs) - Cardinality(had)
    IN  (IF fresh = {} THEN {} ELSE {Min(fresh)}) \cup
        (IF had \cap NetworkMiners # {} /\ repeated < MaxRepeatedSigs
            THEN {Min(had \cap NetworkMiners)} ELSE {}) \cup
        (IF CopiesIn(Outsider, sigs) < MaxOutsiderSigs THEN {Outsider} ELSE {})

TxInputs ==
    {[tx_id |-> "t1", type |-> "transfer", from |-> 1, to |-> 2,
      amount |-> 10 * MICRO, fee |-> 1000]}

\* a TRANSACTION whose "data" holds a tx_id and nothing else
MalformedTx == [tx_id |-> "t0"]

(***************************************************************************)
(* Handlers of the desktop node, each on main_vars.                        *)
(***************************************************************************)
\* trigger_rebuild(reason_key): on the two timers
trigger_rebuild ==
    IF ~is_mining
    THEN UNCHANGED <<signature_timer, rebuild_timer>>
    ELSE signature_timer' = FALSE /\ rebuild_timer' = TRUE

\* the install without the write of the tx pool
apply_final_state_keeping_pool(state, signatures, ts) ==
    /\ users' = state.users
    /\ miner_pool' = state.miner_pool
    /\ current_group' = state.current_group
    /\ blocks' = Append(blocks, [block_number |-> Len(blocks) + 1,
                                 state_hash   |-> StateHash(state),
                                 signatures   |-> signatures,
                                 timestamp    |-> ts])
    /\ tx_executed' = state.tx_executed
    /\ UNCHANGED tx_pool
    /\ trigger_rebuild

\* apply_final_state(state, signatures) at second ts
apply_final_state(state, signatures, ts) ==
    /\ users' = state.users
    /\ miner_pool' = state.miner_pool
    /\ current_group' = state.current_group
    /\ blocks' = Append(blocks, [block_number |-> Len(blocks) + 1,
                                 state_hash   |-> StateHash(state),
                                 signatures   |-> signatures,
                                 timestamp    |-> ts])
    /\ tx_executed' = state.tx_executed
    /\ tx_pool' = <<>>
    /\ trigger_rebuild

\* the body of mine_cycle, were the executor to empty the pool it ran
MineCycleBody_draining ==
    \E ts \in Times :
        LET update_data == mine(addr, users, current_group, miner_pool, tx_pool, ts)
            ran         == update_data.ok \/ update_data.users_file # users
        IN  /\ ran => cycles < MaxCycles
            /\ cycles' = IF ran THEN cycles + 1 ELSE cycles
            /\ users' = update_data.users_file
            /\ IF update_data.ok
               THEN /\ pending_updates' =
                        (update_data.state_hash :> update_data.state) @@ pending_updates
                    /\ collected_signatures' =
                        (update_data.state_hash :> EmptyBag) @@ collected_signatures
                    /\ sent' = sent \cup
                        {UpdateRequest(update_data.state_hash, update_data.state, addr)}
                    /\ signature_timer' = TRUE
                    /\ rebuild_timer' = FALSE
               ELSE /\ signature_timer' = FALSE
                    /\ rebuild_timer' = TRUE
                    /\ UNCHANGED <<pending_updates, collected_signatures, sent>>
            /\ tx_pool' = <<>>
            /\ UNCHANGED <<miner_pool, current_group, tx_executed, blocks, addr>>

\* tx["type"] and tx["from"] are read of every transaction of the pool
well_formed(tx) == {"type", "from"} \subseteq DOMAIN tx

\* execute_transactions(miner) reaches its loop and a transaction of the pool
\* lacks a key the loop reads: KeyError, which neither mine nor mine_cycle catches
execution_raises(miner, us, grp, pool) ==
    /\ miner \in DOMAIN us
    /\ miner \in DOMAIN grp.miners
    /\ miner \in DOMAIN decrease_life(us)
    /\ \E i \in 1..Len(pool) : ~well_formed(pool[i])

\* mine_cycle left by the exception: the timers stopped at its start, the
\* users file as decrease_life wrote it, and no timer started again
MineCycleRaises ==
    /\ cycles < MaxCycles
    /\ cycles' = cycles + 1
    /\ users' = decrease_life(users)
    /\ signature_timer' = FALSE
    /\ rebuild_timer' = FALSE
    /\ UNCHANGED <<miner_pool, current_group, tx_executed, tx_pool, blocks, addr,
                   pending_updates, collected_signatures, sent>>

\* the body of mine_cycle once is_mining holds
MineCycleBody ==
    IF execution_raises(addr, users, current_group, tx_pool) THEN MineCycleRaises ELSE
    \E ts \in Times :
        LET update_data == mine(addr, users, current_group, miner_pool, tx_pool, ts)
            ran         == update_data.ok \/ update_data.users_file # users
        IN  /\ ran => cycles < MaxCycles
            /\ cycles' = IF ran THEN cycles + 1 ELSE cycles
            /\ users' = update_data.users_file
            /\ IF update_data.ok
               THEN /\ pending_updates' =
                        (update_data.state_hash :> update_data.state) @@ pending_updates
                    /\ collected_signatures' =
                        (update_data.state_hash :> EmptyBag) @@ collected_signatures
                    /\ sent' = sent \cup
                        {UpdateRequest(update_data.state_hash, update_data.state, addr)}
                    /\ signature_timer' = TRUE
                    /\ rebuild_timer' = FALSE
               ELSE /\ signature_timer' = FALSE
                    /\ rebuild_timer' = TRUE
                    /\ UNCHANGED <<pending_updates, collected_signatures, sent>>
            /\ UNCHANGED <<miner_pool, current_group, tx_executed, tx_pool, blocks, addr>>

login(a) ==
    /\ addr' = a
    /\ UNCHANGED <<users, miner_pool, current_group, tx_executed, tx_pool, blocks,
                   pending_updates, collected_signatures, is_mining, signature_timer,
                   rebuild_timer, sent, cycles>>

logout ==
    /\ addr # None
    /\ addr' = None
    /\ UNCHANGED <<users, miner_pool, current_group, tx_executed, tx_pool, blocks,
                   pending_updates, collected_signatures, is_mining, signature_timer,
                   rebuild_timer, sent, cycles>>

\* the Start button is disabled while mining
start_mining ==
    /\ ~is_mining
    /\ IF addr = None
       THEN UNCHANGED main_vars
       ELSE /\ is_mining' = TRUE
            /\ MineCycleBody

stop_mining ==
    /\ is_mining
    /\ is_mining' = FALSE
    /\ signature_timer' = FALSE
    /\ rebuild_timer' = FALSE
    /\ UNCHANGED <<users, miner_pool, current_group, tx_executed, tx_pool, blocks,
                   pending_updates, collected_signatures, addr, sent, cycles>>

\* rebuild_timer fires: mine_cycle
mine_cycle ==
    /\ rebuild_timer
    /\ IF ~is_mining
       THEN rebuild_timer' = FALSE /\
            UNCHANGED <<users, miner_pool, current_group, tx_executed, tx_pool, blocks,
                        pending_updates, collected_signatures, is_mining,
                        signature_timer, addr, sent, cycles>>
       ELSE is_mining' = is_mining /\ MineCycleBody

\* signature_timer fires
handle_signature_timeout ==
    /\ signature_timer
    /\ IF is_mining
       THEN trigger_rebuild
       ELSE signature_timer' = FALSE /\ UNCHANGED rebuild_timer
    /\ UNCHANGED <<users, miner_pool, current_group, tx_executed, tx_pool, blocks,
                   pending_updates, collected_signatures, is_mining, addr, sent, cycles>>

update_mine_wait ==
    /\ trigger_rebuild
    /\ UNCHANGED <<users, miner_pool, current_group, tx_executed, tx_pool, blocks,
                   pending_updates, collected_signatures, is_mining, addr, sent, cycles>>

on_receive_transaction(tx) ==
    /\ tx_pool' = IF \E i \in 1..Len(tx_pool) : tx_pool[i].tx_id = tx.tx_id
                  THEN tx_pool
                  ELSE Append(tx_pool, tx)
    /\ UNCHANGED <<users, miner_pool, current_group, tx_executed, blocks,
                   pending_updates, collected_signatures, is_mining, signature_timer,
                   rebuild_timer, addr, sent, cycles>>

\* the condition under which on_receive_update_request sends a SIGNATURE
signs_update_request(state, received_hash, miner, miner_port) ==
    /\ StateHash(state) = received_hash
    /\ verify_proposed_state(miner, state)
    /\ addr \in get_selected_miners(received_hash, state.current_group.miners)
    /\ miner_port # 0

on_receive_update_request(state, received_hash, miner, miner_port) ==
    /\ sent' = IF signs_update_request(state, received_hash, miner, miner_port)
               THEN sent \cup {Signature(received_hash, addr)}
               ELSE sent
    /\ UNCHANGED <<users, miner_pool, current_group, tx_executed, tx_pool, blocks,
                   pending_updates, collected_signatures, is_mining, signature_timer,
                   rebuild_timer, addr, cycles>>

\* del d[h]
Del(d, h) == [k \in DOMAIN d \ {h} |-> d[k]]

\* the condition under which on_receive_signature finalizes
finalizes(state_hash, signer) ==
    /\ state_hash \in DOMAIN collected_signatures
    /\ BagCardinality(collected_signatures[state_hash] (+) Copies(signer, 1))
           >= SIGNATURES_REQUIRED
    /\ state_hash \in DOMAIN pending_updates

on_receive_signature(state_hash, signer) ==
    IF state_hash \notin DOMAIN collected_signatures
    THEN UNCHANGED main_vars
    ELSE LET sigs == collected_signatures[state_hash] (+) Copies(signer, 1) IN
         IF finalizes(state_hash, signer)
         THEN /\ Len(blocks) < MaxBlocks
              /\ \E ts \in Times :
                    apply_final_state(pending_updates[state_hash], sigs, ts)
              /\ sent' = sent \cup
                    {FinalUpdate(state_hash, pending_updates[state_hash], sigs)}
              /\ pending_updates' = Del(pending_updates, state_hash)
              /\ collected_signatures' = Del(collected_signatures, state_hash)
              /\ UNCHANGED <<is_mining, addr, cycles>>
         ELSE /\ collected_signatures' = [collected_signatures EXCEPT ![state_hash] = sigs]
              /\ UNCHANGED <<users, miner_pool, current_group, tx_executed, tx_pool,
                             blocks, pending_updates, is_mining, signature_timer,
                             rebuild_timer, addr, sent, cycles>>

\* accepts_final_update without the test of the signers
accepts_final_update_any_signer(state_hash, signatures) ==
    BagCardinality(signatures) >= SIGNATURES_REQUIRED

\* the condition under which on_receive_final_update replaces the state
accepts_final_update(state_hash, signatures) ==
    /\ BagCardinality(signatures) >= SIGNATURES_REQUIRED
    /\ BagToSet(signatures) \subseteq get_selected_miners(state_hash, current_group.miners)

on_receive_final_update(state_hash, signatures, state) ==
    IF accepts_final_update(state_hash, signatures)
    THEN /\ Len(blocks) < MaxBlocks
         /\ \E ts \in Times : apply_final_state(state, signatures, ts)
         /\ UNCHANGED <<pending_updates, collected_signatures, is_mining, addr, sent,
                        cycles>>
    ELSE UNCHANGED main_vars

(***************************************************************************)
(* apply_final_state, one write_json at a time: the handlers run on the    *)
(* threads of the connections, each file is written by its own call.       *)
(***************************************************************************)
\* the part of the files that a call of apply_final_state replaces
Snapshot == <<users, miner_pool, current_group, tx_executed, Len(blocks)>>

\* on_receive_final_update up to its call of apply_final_state
final_update_accepted(state_hash, signatures, state) ==
    /\ install.pc = "idle"
    /\ accepts_final_update(state_hash, signatures)
    /\ Len(blocks) < MaxBlocks
    /\ install' = [pc |-> "users", state |-> state, signatures |-> signatures,
                   before |-> Snapshot]
    /\ UNCHANGED main_vars

write_users ==
    /\ install.pc = "users"
    /\ users' = install.state.users
    /\ install' = [install EXCEPT !.pc = "miner_pool"]
    /\ UNCHANGED <<miner_pool, current_group, tx_executed, tx_pool, blocks,
                   pending_updates, collected_signatures, is_mining, signature_timer,
                   rebuild_timer, addr, sent, cycles>>

write_miner_pool ==
    /\ install.pc = "miner_pool"
    /\ miner_pool' = install.state.miner_pool
    /\ install' = [install EXCEPT !.pc = "current_group"]
    /\ UNCHANGED <<users, current_group, tx_executed, tx_pool, blocks,
                   pending_updates, collected_signatures, is_mining, signature_timer,
                   rebuild_timer, addr, sent, cycles>>

write_current_group ==
    /\ install.pc = "current_group"
    /\ current_group' = install.state.current_group
    /\ install' = [install EXCEPT !.pc = "block"]
    /\ UNCHANGED <<users, miner_pool, tx_executed, tx_pool, blocks,
                   pending_updates, collected_signatures, is_mining, signature_timer,
                   rebuild_timer, addr, sent, cycles>>

write_block ==
    /\ install.pc = "block"
    /\ \E ts \in Times :
        blocks' = Append(blocks, [block_number |-> Len(blocks) + 1,
                                  state_hash   |-> StateHash(install.state),
                                  signatures   |-> install.signatures,
                                  timestamp    |-> ts])
    /\ install' = [install EXCEPT !.pc = "tx_executed"]
    /\ UNCHANGED <<users, miner_pool, current_group, tx_executed, tx_pool,
                   pending_updates, collected_signatures, is_mining, signature_timer,
                   rebuild_timer, addr, sent, cycles>>

write_tx_executed ==
    /\ install.pc = "tx_executed"
    /\ tx_executed' = install.state.tx_executed
    /\ install' = [install EXCEPT !.pc = "tx_pool"]
    /\ UNCHANGED <<users, miner_pool, current_group, tx_pool, blocks,
                   pending_updates, collected_signatures, is_mining, signature_timer,
                   rebuild_timer, addr, sent, cycles>>

\* the last write, and the rest of the call
write_tx_pool ==
    /\ install.pc = "tx_pool"
    /\ tx_pool' = <<>>
    /\ trigger_rebuild
    /\ install' = NoInstall
    /\ UNCHANGED <<users, miner_pool, current_group, tx_executed, blocks,
                   pending_updates, collected_signatures, is_mining, addr, sent, cycles>>

\* write_json raises (open or json.dump fails): the call ends where it is
write_fails ==
    /\ install.pc \in {"users", "miner_pool", "current_group", "block", "tx_executed",
                       "tx_pool"}
    /\ install' = [install EXCEPT !.pc = "failed"]
    /\ UNCHANGED main_vars

(***************************************************************************)
(* The headless node (class LibreNode) on its SQLite store.                *)
(***************************************************************************)
VARIABLES
    node_users,                 \* table users: address -> row
    node_miner_pool,            \* table miner_pool
    node_groups,                \* table groups: group_id -> row
    node_blocks,                \* table blocks: block_number -> row
    node_pending_updates,       \* self.pending_updates
    node_collected_signatures,  \* self.collected_signatures
    node_sent                   \* the messages handed to self.p2p

node_vars == <<node_users, node_miner_pool, node_groups, node_blocks,
               node_pending_updates, node_collected_signatures, node_sent>>

\* "GENESIS", the miner of block 0: an address of no wallet
GENESIS == COMMITTEE_SIZE + 2

Max(S) == CHOOSE x \in S : \A y \in S : x >= y

\* a block 0 that carries the hash of the empty state
GenesisBlockOfState(ts) ==
    [block_number |-> 0, prev_hash |-> ZeroHash, state_hash |-> StateHash(EmptyState),
     combined_hash |-> ZeroHash, group_id |-> 0, miner |-> GENESIS, timestamp |-> ts,
     executed_tx_count |-> 0, signatures |-> EmptyBag]

GenesisBlock(ts) ==
    [block_number |-> 0, prev_hash |-> ZeroHash, state_hash |-> ZeroHash,
     combined_hash |-> ZeroHash, group_id |-> 0, miner |-> GENESIS, timestamp |-> ts,
     executed_tx_count |-> 0, signatures |-> EmptyBag]

\* Blockchain.__init__ on a new database: ensure_genesis
NodeInit ==
    /\ node_users = <<>>
    /\ node_miner_pool = <<>>
    /\ \E ts \in Times :
        /\ node_groups = (0 :> [miners |-> <<>>, created_at |-> ts])
        /\ node_blocks = (0 :> GenesisBlock(ts))
    /\ node_pending_updates = <<>>
    /\ node_collected_signatures = <<>>
    /\ node_sent = {}

get_latest_block == node_blocks[Max(DOMAIN node_blocks)]
get_block_count == Cardinality(DOMAIN node_blocks)
get_latest_group ==
    LET g == Max(DOMAIN node_groups)
    IN  [group_id |-> g, miners |-> node_groups[g].miners,
         created_at |-> node_groups[g].created_at]

compute_state_hash ==
    Hash([users |-> node_users, miner_pool |-> node_miner_pool,
          latest_group |-> get_latest_group,
          latest_block_hash |-> get_latest_block.state_hash])

\* the header fields that combined_hash covers
block_content(b) ==
    [block_number |-> b.block_number, prev_hash |-> b.prev_hash,
     state_hash |-> b.state_hash, group_id |-> b.group_id, miner |-> b.miner,
     timestamp |-> b.timestamp]

\* the block that create_block saves at second ts
create_block(state, miner, signatures, group_id, ts) ==
    LET latest == get_latest_block
        header == [block_number |-> latest.block_number + 1,
                   prev_hash |-> latest.state_hash, state_hash |-> compute_state_hash,
                   group_id |-> group_id, miner |-> miner, timestamp |-> ts]
    IN  [block_number |-> header.block_number, prev_hash |-> header.prev_hash,
         state_hash |-> header.state_hash, combined_hash |-> Hash(header),
         group_id |-> group_id, miner |-> miner, timestamp |-> ts,
         executed_tx_count |-> Cardinality(DOMAIN state.tx_executed),
         signatures |-> signatures]

\* INSERT OR REPLACE INTO blocks
save_block(block_data) ==
    [n \in DOMAIN node_blocks \cup {block_data.block_number} |->
        IF n = block_data.block_number THEN block_data ELSE node_blocks[n]]

\* INSERT OR REPLACE INTO groups
save_group(group) ==
    [g \in DOMAIN node_groups \cup {group.group_id} |->
        IF g = group.group_id
        THEN [miners |-> group.miners, created_at |-> group.created_at]
        ELSE node_groups[g]]

\* upsert_user for every user of the message
upsert_users(remote_users) ==
    [a \in DOMAIN node_users \cup DOMAIN remote_users |->
        IF a \in DOMAIN remote_users THEN remote_users[a] ELSE node_users[a]]

\* Blockchain.ensure_genesis at second ts
ensure_genesis(ts) ==
    /\ IF get_block_count = 0
       THEN /\ node_groups' = save_group([group_id |-> 0, miners |-> <<>>, created_at |-> ts])
            /\ node_blocks' = save_block(GenesisBlock(ts))
       ELSE UNCHANGED <<node_groups, node_blocks>>
    /\ UNCHANGED <<node_users, node_miner_pool, node_pending_updates,
                   node_collected_signatures, node_sent>>

\* Blockchain.verify_chain on a table of blocks: "True", "False", or
\* "TypeError" when get_block gives None for a number below the count
RECURSIVE VerifyFrom(_, _, _)
VerifyFrom(chain, i, count) ==
    IF i >= count THEN "True"
    ELSE IF i \notin DOMAIN chain \/ (i - 1) \notin DOMAIN chain THEN "TypeError"
    ELSE IF chain[i].prev_hash # chain[i - 1].state_hash THEN "False"
    ELSE IF Hash(block_content(chain[i])) # chain[i].combined_hash THEN "False"
    ELSE VerifyFrom(chain, i + 1, count)

verify_chain(chain) ==
    LET count == Cardinality(DOMAIN chain)
    IN  IF count <= 1 THEN "True" ELSE VerifyFrom(chain, 1, count)

_apply_remote_state(msg) ==
    /\ node_users' = upsert_users(msg.users)
    /\ node_groups' = save_group(msg.group)
    /\ node_blocks' = save_block(msg.block)

on_receive_state_update(msg) ==
    /\ IF msg.block.block_number > get_latest_block.block_number
       THEN _apply_remote_state(msg)
       ELSE UNCHANGED <<node_users, node_groups, node_blocks>>
    /\ UNCHANGED <<node_miner_pool, node_pending_updates, node_collected_signatures,
                   node_sent>>

\* Consensus.validate_proposed_state
validate_proposed_state(miner, proposed_state) ==
    LET executed == proposed_state.tx_executed
        rewards  == {id \in DOMAIN executed : executed[id].type = "reward"}
    IN  /\ Cardinality(rewards) = 1
        /\ \A id \in rewards : executed[id].to = miner /\ executed[id].amount = REWARD * MICRO

on_receive_signature_request(state_hash, proposed_state, miner) ==
    /\ node_sent' = IF validate_proposed_state(miner, proposed_state)
                    THEN node_sent \cup {[type |-> "SIGNATURE_RESPONSE",
                                          state_hash |-> state_hash,
                                          signer |-> "DEMO_SIGNER"]}
                    ELSE node_sent
    /\ UNCHANGED <<node_users, node_miner_pool, node_groups, node_blocks,
                   node_pending_updates, node_collected_signatures>>

finalize_block(state_hash, signatures, ts) ==
    IF state_hash \notin DOMAIN node_pending_updates
    THEN UNCHANGED <<node_blocks, node_pending_updates>> /\
         node_collected_signatures' =
            [node_collected_signatures EXCEPT ![state_hash] = signatures]
    ELSE LET update == node_pending_updates[state_hash] IN
         /\ node_blocks' = save_block(create_block(update.state, update.miner, signatures,
                                                   update.group_id, ts))
         /\ node_pending_updates' = Del(node_pending_updates, state_hash)
         /\ node_collected_signatures' = Del(node_collected_signatures, state_hash)

on_receive_signature_response(state_hash, signer) ==
    /\ IF state_hash \notin DOMAIN node_collected_signatures
       THEN UNCHANGED <<node_blocks, node_pending_updates, node_collected_signatures>>
       ELSE LET sigs == node_collected_signatures[state_hash] (+) Copies(signer, 1) IN
            IF BagCardinality(sigs) >= SIGNATURES_REQUIRED
            THEN \E ts \in Times : finalize_block(state_hash, sigs, ts)
            ELSE /\ node_collected_signatures' =
                        [node_collected_signatures EXCEPT ![state_hash] = sigs]
                 /\ UNCHANGED <<node_blocks, node_pending_updates>>
    /\ UNCHANGED <<node_users, node_miner_pool, node_groups, node_sent>>

(***************************************************************************)
(* The STATE_UPDATE messages the headless node is sent.                    *)
(***************************************************************************)
\* the state hash of block n of the sender's chain
RemoteStateHash(n) == IF n = 0 THEN ZeroHash ELSE Hash([height |-> n])

\* block n of a sender whose chain is well formed, from its send_state
RemoteBlock(n, ts) ==
    IF n = 0 THEN GenesisBlock(ts)
    ELSE LET header == [block_number |-> n, prev_hash |-> RemoteStateHash(n - 1),
                        state_hash |-> RemoteStateHash(n), group_id |-> 1, miner |-> 2,
                        timestamp |-> ts]
         IN  [block_number |-> n, prev_hash |-> header.prev_hash,
              state_hash |-> header.state_hash, combined_hash |-> Hash(header),
              group_id |-> 1, miner |-> 2, timestamp |-> ts, executed_tx_count |-> 1,
              signatures |-> OneEach(NetworkMiners)]

\* the same block with another parent, and with another combined hash
Unlinked(b) == [b EXCEPT !.prev_hash = Hash([height |-> MaxHeight + 1])]
Unsealed(b) == [b EXCEPT !.combined_hash = ZeroHash]

RemoteBlockInputs ==
    LET well == {RemoteBlock(n, ts) : n \in 0..MaxHeight, ts \in Times}
    IN  well \cup {Unlinked(b) : b \in well} \cup {Unsealed(b) : b \in well}

StateUpdateInputs ==
    {[block |-> b, group |-> g, users |-> u] :
        b \in RemoteBlockInputs,
        g \in {NetworkGroup, [NetworkGroup EXCEPT !.group_id = 2]},
        u \in {<<>>, NetworkUsers}}

(***************************************************************************)
(* The gossip layer of the desktop node (class P2PNode of p2p_network.py). *)
(* Every inbound connection is served by a thread of its own.              *)
(***************************************************************************)
VARIABLES
    seen_messages,   \* self.seen_messages: envelope id -> time of entry
    peers,           \* self.peers: node id -> last_seen
    clock,           \* time.time(), in seconds
    conn,            \* the connection threads: where each is in _handle_connection
    gossip           \* history: bag of what the threads did with the envelopes

p2p_vars == <<seen_messages, peers, clock, conn, gossip>>

\* seconds an envelope id stays in seen_messages, and a silent peer in peers
SEEN_TTL == 600
PEER_TTL == 300

\* self.node_id, and the ids of the other nodes
node_id == "n0"
PeerIds == {"n1", "n2"}

Connections == 1..MaxConnections
MaxClock == MaxExpiries * (SEEN_TTL + 1)

\* an envelope without "id" has id 0
NoEnvelope == [id |-> 0, sender |-> node_id, broadcast |-> FALSE]
Idle == [pc |-> "recv", env |-> NoEnvelope, from |-> node_id, at |-> 0]

\* the envelopes that arrive: "sender" is the node that created the envelope,
\* the connection it arrives on is from a node that created it or passed it on
EnvelopeInputs ==
    {[id |-> i, sender |-> s, broadcast |-> b] :
        i \in 0..MaxEnvelopes, s \in PeerIds, b \in BOOLEAN}

P2PInit ==
    /\ seen_messages = <<>>
    /\ peers = <<>>
    /\ clock = 0
    /\ conn = [c \in Connections |-> Idle]
    /\ gossip = EmptyBag

\* what connection c did with its envelope; at is when the envelope passed
\* the test of seen_messages (for a dropped one, when it failed it)
Did(op, c, at, to) ==
    SetToBag({[op |-> op, id |-> conn[c].env.id, from |-> conn[c].from,
               at |-> at, to |-> to]})

\* conn.recv and json.loads give an envelope; one without id is skipped
recv(c, env, from) ==
    /\ conn[c].pc = "recv"
    /\ conn' = [conn EXCEPT ![c] = IF env.id = 0 THEN Idle
                                   ELSE [pc |-> "dedup", env |-> env,
                                         from |-> from, at |-> 0]]
    /\ UNCHANGED <<seen_messages, peers, clock, gossip>>

\* the entry without the test
dedup_untested(c) ==
    /\ conn[c].pc = "dedup"
    /\ seen_messages' = (conn[c].env.id :> clock) @@ seen_messages
    /\ conn' = [conn EXCEPT ![c].pc = "dispatch", ![c].at = clock]
    /\ gossip' = gossip (+) Did("accept", c, clock, {})
    /\ UNCHANGED <<peers, clock>>

\* with self.seen_messages_lock: the test and the entry
dedup(c) ==
    /\ conn[c].pc = "dedup"
    /\ IF conn[c].env.id \in DOMAIN seen_messages
       THEN /\ conn' = [conn EXCEPT ![c] = Idle]
            /\ gossip' = gossip (+) Did("drop", c, clock, {})
            /\ UNCHANGED seen_messages
       ELSE /\ seen_messages' = (conn[c].env.id :> clock) @@ seen_messages
            /\ conn' = [conn EXCEPT ![c].pc = "dispatch", ![c].at = clock]
            /\ gossip' = gossip (+) Did("accept", c, clock, {})
    /\ UNCHANGED <<peers, clock>>

\* add_peer(sender_id, ...) and self.message_handler(message_env, addr);
\* a handler that raises ends the connection
dispatch(c, raises) ==
    /\ conn[c].pc = "dispatch"
    /\ peers' = IF conn[c].env.sender # node_id
                THEN (conn[c].env.sender :> clock) @@ peers
                ELSE peers
    /\ gossip' = gossip (+) Did("handle", c, conn[c].at, {})
    /\ conn' = [conn EXCEPT ![c] = IF raises THEN Idle ELSE [@ EXCEPT !.pc = "relay"]]
    /\ UNCHANGED <<seen_messages, clock>>

\* the peers that broadcast(message_env, exclude_node_id) sends to
broadcast_targets(exclude_node_id) ==
    {nid \in DOMAIN peers : nid # exclude_node_id /\ nid # node_id}

\* if message_env.get("broadcast"): self.broadcast(message_env, sender_id)
relay(c) ==
    /\ conn[c].pc = "relay"
    /\ IF conn[c].env.broadcast
       THEN /\ seen_messages' = IF conn[c].env.id \in DOMAIN seen_messages
                                THEN seen_messages
                                ELSE (conn[c].env.id :> clock) @@ seen_messages
            /\ gossip' = gossip (+) Did("relay", c, conn[c].at,
                                        broadcast_targets(conn[c].env.sender))
       ELSE UNCHANGED <<seen_messages, gossip>>
    /\ conn' = [conn EXCEPT ![c] = Idle]
    /\ UNCHANGED <<peers, clock>>

\* one turn of _periodic_cleanup
periodic_cleanup ==
    /\ seen_messages' = [mid \in {m \in DOMAIN seen_messages :
                                    ~(clock - seen_messages[m] > SEEN_TTL)}
                            |-> seen_messages[mid]]
    /\ peers' = [nid \in {n \in DOMAIN peers : ~(clock - peers[n] > PEER_TTL)}
                    |-> peers[nid]]
    /\ UNCHANGED <<clock, conn, gossip>>

\* time passes
tick(seconds) ==
    /\ clock + seconds <= MaxClock
    /\ clock' = clock + seconds
    /\ UNCHANGED <<seen_messages, peers, conn, gossip>>

(***************************************************************************)
(* Pure functions on inputs: the input, then what the function returned.   *)
(***************************************************************************)
VARIABLES probe

NoProbe == [op |-> "none"]

(***************************************************************************)
(* The configuration files, and the handler threads of the claims that     *)
(* take a handler statement by statement.                                  *)
(***************************************************************************)
VARIABLES
    config,    \* libre_data/config.json: "network_port" of the desktop node,
               \* "port" of the headless node
    threads    \* where each handler thread is, with its local variables

more_vars == <<config, threads>>

\* "port": 5000 of load_config and "network_port": 5000 of the desktop defaults
DEFAULT_PORT == 5000
DefaultConfig == [network_port |-> DEFAULT_PORT, port |-> DEFAULT_PORT]

\* port_spin.setRange(1024, 65535) and the tests of the two checked savers
MIN_PORT == 1024
MAX_PORT == 65535
PortRange == MIN_PORT..MAX_PORT

\* What a caller or a line edit can hand over as a port
PortInputs == {0, 80, MIN_PORT - 1, MIN_PORT, 8080, MAX_PORT, MAX_PORT + 1, 70000}
\* What the spin box of the settings tab can hold
SpinInputs == PortInputs \cap PortRange

Saved(entry, port, ok) == [op |-> "save_port", entry |-> entry, port |-> port, ok |-> ok]

\* test_save_port(port): the range test, then read, set, write
test_save_port(port) ==
    /\ config' = IF port \in PortRange THEN [config EXCEPT !.network_port = port]
                                        ELSE config
    /\ probe' = Saved("test_save_port", port, port \in PortRange)

\* Main.save_port(): the value of the spin box, the range test, set, write
save_port(port) ==
    /\ config' = IF port \in PortRange THEN [config EXCEPT !.network_port = port]
                                        ELSE config
    /\ probe' = Saved("Main.save_port", port, port \in PortRange)

\* LibreGUI.save_settings(): int() of the line edit, then config.port = new_port
\* (Config.set writes the file); the only failure is a text that is no integer
save_settings(new_port) ==
    /\ config' = [config EXCEPT !.port = new_port]
    /\ probe' = Saved("LibreGUI.save_settings", new_port, TRUE)

\* The port a node reads back: Main reads "network_port", Config.port reads "port"
stored_port(entry, c) ==
    IF entry = "LibreGUI.save_settings" THEN c.port ELSE c.network_port

NoThreads == <<>>

\* Proposals for the two validators: no, one or two reward entries, to the
\* miner or to another, of 100 coins or a millionth less, with or without a
\* transfer beside them; a group without miners, with miner 1, with both.
ValidatorInputs ==
    LET rewards  == {[RewardTx(to, 1) EXCEPT !.amount = a] :
                        to \in {1, 2}, a \in {REWARD * MICRO, REWARD * MICRO - 1}}
        slot(id) == {<<>>} \cup {id :> r : r \in rewards}
        others   == {<<>>} \cup {tx.tx_id :> tx : tx \in TxInputs}
        groups   == {<<>>, 1 :> 1, (1 :> 1) @@ (2 :> 1)}
    IN  {[miner |-> m,
          state |-> [StaleState EXCEPT !.tx_executed = e1 @@ e2 @@ o,
                                       !.current_group.miners = g]] :
            m \in {1, 2}, e1 \in slot(reward_id(1)), e2 \in slot(reward_id(2)),
            o \in others, g \in groups}

\* Pools for the executor, as the gossip handler fills them: a transfer, one
\* that overspends, one of a negative amount, one with a negative fee, the
\* opening of an account, a request to join the miner pool, a transfer whose
\* id is the id that the reward of second 1 gets.
ExecutorTxs ==
    {[tx_id |-> "t1", type |-> "transfer", from |-> 1, to |-> 2,
      amount |-> 10 * MICRO, fee |-> 1000],
     [tx_id |-> "t2", type |-> "transfer", from |-> 1, to |-> 2,
      amount |-> 300 * MICRO, fee |-> 1000],
     [tx_id |-> "t3", type |-> "transfer", from |-> 1, to |-> 2,
      amount |-> -(10 * MICRO), fee |-> 0],
     [tx_id |-> "t4", type |-> "transfer", from |-> 2, to |-> 1,
      amount |-> 0, fee |-> -(20 * MICRO)],
     [tx_id |-> "t5", type |-> "new_account", from |-> 1, to |-> Outsider,
      amount |-> 0, fee |-> 1000],
     [tx_id |-> "t6", type |-> "join_pool", from |-> 1, to |-> None,
      amount |-> 0, fee |-> 1000],
     [tx_id |-> reward_id(1), type |-> "transfer", from |-> 1, to |-> 2,
      amount |-> 10 * MICRO, fee |-> 1000]}

PoolInputs ==
    {<<>>} \cup {<<tx>> : tx \in ExecutorTxs}
           \cup {<<p[1], p[2]>> : p \in {q \in ExecutorTxs \X ExecutorTxs : q[1] # q[2]}}

\* the network's users, and the same with the account of 2 on its last turn,
\* empty or holding coins
UsersInputs ==
    {NetworkUsers,
     [NetworkUsers EXCEPT ![2].life = 1],
     [NetworkUsers EXCEPT ![2].life = 1, ![2].balance = 5 * MICRO]}

\* the miner pool: empty, one short of a new group, enough for a new group
MinerPoolInputs ==
    {<<>>, [a \in 2..GROUP_THRESHOLD |-> 1], [a \in 1..GROUP_THRESHOLD |-> 1]}

ExecutorInputs ==
    {[miner |-> m, users |-> us, miner_pool |-> mp, pool |-> pool, ts |-> ts] :
        m \in {1, 2}, us \in UsersInputs, mp \in MinerPoolInputs,
        pool \in PoolInputs, ts \in Times}

\* execute_transactions(miner) on the files of the input
execute ==
    /\ probe.op = "input"
    /\ probe' = [op         |-> "once",
                 miner      |-> probe.miner,
                 users      |-> probe.users,
                 miner_pool |-> probe.miner_pool,
                 pool       |-> probe.pool,
                 ts         |-> probe.ts,
                 first      |-> execute_transactions(probe.miner, probe.users, NetworkGroup,
                                                     probe.miner_pool, probe.pool, probe.ts)]

\* execute_transactions(miner) again, in the same second, on the files as
\* the first call left them
execute_again ==
    /\ probe.op = "once"
    /\ probe' = [op         |-> "twice",
                 miner      |-> probe.miner,
                 users      |-> probe.users,
                 miner_pool |-> probe.miner_pool,
                 pool       |-> probe.pool,
                 ts         |-> probe.ts,
                 first      |-> probe.first,
                 second     |-> execute_transactions(probe.miner, probe.first.users_file,
                                                     NetworkGroup, probe.miner_pool,
                                                     probe.pool, probe.ts)]

\* two nodes with the same files and the same pool run mine(miner), the
\* second a second after the first
execute_on_two_nodes ==
    /\ probe.op = "input"
    /\ probe' = [op         |-> "two_nodes",
                 miner      |-> probe.miner,
                 users      |-> probe.users,
                 miner_pool |-> probe.miner_pool,
                 pool       |-> probe.pool,
                 ts         |-> probe.ts,
                 here       |-> mine(probe.miner, probe.users, NetworkGroup,
                                     probe.miner_pool, probe.pool, probe.ts),
                 there      |-> mine(probe.miner, probe.users, NetworkGroup,
                                     probe.miner_pool, probe.pool, probe.ts + 1)]

\* Rosters for committee selection, as lists of keys: none, one, half a
\* committee, a committee, one more, half as many again.
RosterSizes == {0, 1, 50, COMMITTEE_SIZE, COMMITTEE_SIZE + 1, COMMITTEE_SIZE + 50}

CommitteeInputs ==
    {[state_hash |-> Hash(k), roster |-> [i \in 1..n |-> i]] :
        k \in 0..MaxSeed, n \in RosterSizes}

\* the keys in the opposite order
Reversed(list) == [i \in 1..Len(list) |-> list[Len(list) + 1 - i]]

\* both selections on the roster, and on the same roster in another order
select ==
    /\ probe.op = "input"
    /\ probe' =
        [op         |-> "selected",
         state_hash |-> probe.state_hash,
         roster     |-> probe.roster,
         desktop    |-> get_selected_miners_list(probe.state_hash, probe.roster),
         headless   |-> Consensus_get_selected_miners(probe.state_hash, probe.roster),
         desktop_reordered  |->
             get_selected_miners_list(probe.state_hash, Reversed(probe.roster)),
         headless_reordered |->
             Consensus_get_selected_miners(probe.state_hash, Reversed(probe.roster))]

\* both validators on one input
validate ==
    /\ probe.op = "input"
    /\ probe' = [op       |-> "validated",
                 miner    |-> probe.miner,
                 state    |-> probe.state,
                 desktop  |-> verify_proposed_state(probe.miner, probe.state),
                 headless |-> validate_proposed_state(probe.miner, probe.state)]

(***************************************************************************)
(* Steps: a handler on an input of the environment, with the history       *)
(* variables.  A step of one program leaves the other program alone.       *)
(***************************************************************************)
vars == <<main_vars, signed, abandoned, event, install, node_vars, p2p_vars, probe, more_vars>>

desktop_vars == <<main_vars, signed, abandoned, event, install>>

\* a step that the history variables do not record
Quiet == event' = NoEvent /\ UNCHANGED <<signed, abandoned, install, node_vars, p2p_vars, probe, more_vars>>

Overtaken(hashes, why) == {[state_hash |-> h, why |-> why] : h \in hashes}

Login == (\E a \in LoginInputs : login(a)) /\ Quiet

Logout == logout /\ Quiet

StartMining == start_mining /\ Quiet

StopMining == stop_mining /\ Quiet

RebuildTimeout == mine_cycle /\ Quiet

SignatureTimeout ==
    /\ handle_signature_timeout
    /\ abandoned' = abandoned \cup Overtaken(DOMAIN pending_updates, "expired")
    /\ event' = NoEvent
    /\ UNCHANGED <<signed, install, node_vars, p2p_vars, probe, more_vars>>

UpdateMineWait == is_mining /\ update_mine_wait /\ Quiet

ReceiveTransaction == (\E tx \in TxInputs : on_receive_transaction(tx)) /\ Quiet

ReceiveUpdateRequest ==
    \E state \in StateInputs, miner \in RemoteMiners, miner_port \in {0, 5001} :
        \E received_hash \in {StateHash(state), ZeroHash} :
            /\ on_receive_update_request(state, received_hash, miner, miner_port)
            /\ signed' = IF signs_update_request(state, received_hash, miner, miner_port)
                         THEN signed \cup {received_hash}
                         ELSE signed
            /\ event' = NoEvent
            /\ UNCHANGED <<abandoned, install, node_vars, p2p_vars, probe, more_vars>>

ReceiveSignature ==
    \E state_hash \in DOMAIN collected_signatures \cup {ZeroHash} :
        \E signer \in (IF state_hash \in DOMAIN collected_signatures
                       THEN SignerInputs(collected_signatures[state_hash])
                       ELSE LoginInputs) :
            /\ on_receive_signature(state_hash, signer)
            /\ signed' = IF finalizes(state_hash, signer) THEN {} ELSE signed
            /\ event' = NoEvent
            /\ UNCHANGED <<abandoned, install, node_vars, p2p_vars, probe, more_vars>>

\* an UPDATE_REQUEST, keeping whether its hash is the hash of its state and
\* whether the validator passes it
ReceiveUpdateRequestNoted ==
    \E state \in StateInputs, miner \in RemoteMiners, miner_port \in {0, 5001} :
        \E received_hash \in {StateHash(state), ZeroHash} :
            /\ on_receive_update_request(state, received_hash, miner, miner_port)
            /\ signed' = IF signs_update_request(state, received_hash, miner, miner_port)
                         THEN signed \cup {received_hash}
                         ELSE signed
            /\ event' = [op      |-> "UPDATE_REQUEST",
                         short   |-> FALSE,
                         foreign |-> FALSE,
                         hash_ok |-> received_hash = StateHash(state),
                         valid   |-> verify_proposed_state(miner, state)]
            /\ UNCHANGED <<abandoned, install, node_vars, p2p_vars, probe, more_vars>>

\* Short: fewer than SIGNATURES_REQUIRED entries.  Foreign: a signer outside
\* the committee that the receiver's group gives for the hash.
Short(signatures) == BagCardinality(signatures) < SIGNATURES_REQUIRED
Foreign(state_hash, signatures) ==
    \E s \in BagToSet(signatures) :
        s \notin get_selected_miners(state_hash, current_group.miners)

\* A FINAL_UPDATE as the protocol wants it: the hash is the hash of the
\* state, and the list holds one signature of each of SIGNATURES_REQUIRED
\* or more members of the committee.
Valid(state_hash, signatures, state) ==
    /\ state_hash = StateHash(state)
    /\ ~Short(signatures)
    /\ ~Foreign(state_hash, signatures)
    /\ BagCardinality(signatures) = Cardinality(BagToSet(signatures))

FinalUpdateStep(state_hash, signatures, state) ==
    /\ on_receive_final_update(state_hash, signatures, state)
    /\ signed' = IF accepts_final_update(state_hash, signatures) THEN {} ELSE signed
    /\ abandoned' =
        IF accepts_final_update(state_hash, signatures) /\ Valid(state_hash, signatures, state)
        THEN abandoned \cup Overtaken(DOMAIN pending_updates \ {state_hash}, "preempted")
        ELSE abandoned
    /\ UNCHANGED <<install, node_vars, p2p_vars, probe, more_vars>>

\* a FINAL_UPDATE of a sender that hashed the state it sends
ReceiveFinalUpdate ==
    \E state \in StateInputs, signatures \in SignatureListInputs :
        /\ FinalUpdateStep(StateHash(state), signatures, state)
        /\ event' = NoEvent

\* a FINAL_UPDATE signed by every miner of the network's group, or by
\* Outsider alone
ReceiveFinalUpdateSigned ==
    \E state \in StateInputs :
        \E signatures \in {OneEach(NetworkMiners), Copies(Outsider, SIGNATURES_REQUIRED)} :
            /\ FinalUpdateStep(StateHash(state), signatures, state)
            /\ event' = NoEvent

\* a FINAL_UPDATE whose state holds a reward, or none, signed by every miner
\* of the network's group, or by Outsider alone
RewardlessState == [StaleState EXCEPT !.tx_executed = <<>>]

ReceiveFinalUpdateAnyRewards ==
    \E state \in {StaleState, RewardlessState} :
        \E signatures \in {OneEach(NetworkMiners), Copies(Outsider, SIGNATURES_REQUIRED)} :
            /\ FinalUpdateStep(StateHash(state), signatures, state)
            /\ event' = NoEvent

\* a FINAL_UPDATE of any sender, keeping what the message was
ReceiveFinalUpdateNoted ==
    \E state \in StateInputs, signatures \in SignatureListInputs :
        \E state_hash \in {StateHash(state), ZeroHash} :
            /\ FinalUpdateStep(state_hash, signatures, state)
            /\ event' = [op      |-> "FINAL_UPDATE",
                         short   |-> Short(signatures),
                         foreign |-> Foreign(state_hash, signatures),
                         hash_ok |-> state_hash = StateHash(state),
                         valid   |-> Valid(state_hash, signatures, state)]

\* the steps of an install taken write by write
FinalUpdateAccepted ==
    /\ \E state \in StateInputs, signatures \in SignatureListInputs :
        final_update_accepted(StateHash(state), signatures, state)
    /\ UNCHANGED <<signed, abandoned, event, node_vars, p2p_vars, probe, more_vars>>

InstallQuiet == UNCHANGED <<signed, abandoned, event, node_vars, p2p_vars, probe, more_vars>>

WriteUsers == write_users /\ InstallQuiet
WriteMinerPool == write_miner_pool /\ InstallQuiet
WriteCurrentGroup == write_current_group /\ InstallQuiet
WriteBlock == write_block /\ InstallQuiet
WriteTxExecuted == write_tx_executed /\ InstallQuiet
WriteTxPool == write_tx_pool /\ InstallQuiet
WriteFails == write_fails /\ InstallQuiet

\* the steps of the headless node
EnsureGenesis ==
    /\ \E ts \in Times : ensure_genesis(ts)
    /\ event' = [NoEvent EXCEPT !.op = "GENESIS"]
    /\ UNCHANGED <<main_vars, signed, abandoned, install, p2p_vars, probe, more_vars>>

\* a STATE_UPDATE to a node that has been constructed
ReceiveStateUpdateStarted ==
    /\ get_block_count > 0
    /\ \E msg \in StateUpdateInputs : on_receive_state_update(msg)
    /\ event' = NoEvent
    /\ UNCHANGED <<main_vars, signed, abandoned, install, p2p_vars, probe, more_vars>>

ReceiveStateUpdate ==
    /\ \E msg \in StateUpdateInputs : on_receive_state_update(msg)
    /\ UNCHANGED <<desktop_vars, p2p_vars, probe, more_vars>>

ReceiveSignatureRequest ==
    /\ \E proposed_state \in {StaleState, ForgedState}, miner \in RemoteMiners :
        \E state_hash \in {StateHash(proposed_state), ZeroHash} :
            on_receive_signature_request(state_hash, proposed_state, miner)
    /\ UNCHANGED <<desktop_vars, p2p_vars, probe, more_vars>>

\* a SIGNATURE_REQUEST, keeping the same
ReceiveSignatureRequestNoted ==
    \E proposed_state \in {StaleState, ForgedState}, miner \in RemoteMiners :
        \E state_hash \in {StateHash(proposed_state), ZeroHash} :
            /\ on_receive_signature_request(state_hash, proposed_state, miner)
            /\ event' = [op      |-> "SIGNATURE_REQUEST",
                         short   |-> FALSE,
                         foreign |-> FALSE,
                         hash_ok |-> state_hash = StateHash(proposed_state),
                         valid   |-> validate_proposed_state(miner, proposed_state)]
            /\ UNCHANGED <<main_vars, signed, abandoned, install, p2p_vars, probe, more_vars>>

ReceiveSignatureResponse ==
    /\ \E state_hash \in {StateHash(StaleState), ZeroHash}, signer \in LoginInputs :
        on_receive_signature_response(state_hash, signer)
    /\ UNCHANGED <<desktop_vars, p2p_vars, probe, more_vars>>

\* the steps of the gossip layer; the envelopes that arrive are counted
Receipts ==
    LET tested == {e \in BagToSet(gossip) : e.op \in {"accept", "drop"}}
    IN  BagCardinality([e \in tested |-> gossip[e]])
          + Cardinality({c \in Connections : conn[c].pc = "dedup"})

GossipQuiet == UNCHANGED <<desktop_vars, node_vars, probe, more_vars>>

Receive ==
    \E c \in Connections, env \in EnvelopeInputs, from \in PeerIds :
        /\ Receipts < MaxReceipts
        /\ recv(c, env, from)
        /\ GossipQuiet

Dedup == \E c \in Connections : dedup(c) /\ GossipQuiet

Dispatch == \E c \in Connections, raises \in BOOLEAN : dispatch(c, raises) /\ GossipQuiet

Relay == \E c \in Connections : relay(c) /\ GossipQuiet

Cleanup == periodic_cleanup /\ GossipQuiet

Tick == \E seconds \in {SEEN_TTL, SEEN_TTL + 1} : tick(seconds) /\ GossipQuiet

BaseInit == MainInit /\ NodeInit /\ P2PInit /\ config = DefaultConfig

ProgramInit == BaseInit /\ threads = NoThreads

Init == ProgramInit /\ probe = NoProbe

(***************************************************************************)
(* Spec: the desktop node as a miner, through its round.                   *)
(***************************************************************************)
Next ==
    \/ Login
    \/ StartMining
    \/ StopMining
    \/ RebuildTimeout
    \/ SignatureTimeout
    \/ UpdateMineWait
    \/ ReceiveSignature
    \/ ReceiveFinalUpdate

Spec == Init /\ [][Next]_vars

(***************************************************************************)
(* SpecSigner: the desktop node as a member of the network, answering      *)
(* proposals.                                                              *)
(***************************************************************************)
NextSigner ==
    \/ Login
    \/ Logout
    \/ ReceiveTransaction
    \/ ReceiveUpdateRequest
    \/ ReceiveFinalUpdate

SpecSigner == Init /\ [][NextSigner]_vars

(***************************************************************************)
(* SpecFinal: the desktop node as a receiver of FINAL_UPDATE.              *)
(***************************************************************************)
NextFinal ==
    \/ Login
    \/ ReceiveTransaction
    \/ StartMining
    \/ StopMining
    \/ RebuildTimeout
    \/ ReceiveFinalUpdateNoted

SpecFinal == Init /\ [][NextFinal]_vars

(***************************************************************************)
(* SpecInstall: the desktop node with apply_final_state taken write by     *)
(* write, beside the handler of another connection.                        *)
(***************************************************************************)
NextInstall ==
    \/ Login
    \/ StartMining
    \/ ReceiveTransaction
    \/ FinalUpdateAccepted
    \/ WriteUsers
    \/ WriteMinerPool
    \/ WriteCurrentGroup
    \/ WriteBlock
    \/ WriteTxExecuted
    \/ WriteTxPool
    \/ WriteFails

SpecInstall == Init /\ [][NextInstall]_vars

(***************************************************************************)
(* SpecNode: the headless node.                                            *)
(***************************************************************************)
NextNode ==
    \/ ReceiveStateUpdate
    \/ ReceiveSignatureRequest
    \/ ReceiveSignatureResponse

SpecNode == Init /\ [][NextNode]_vars

(***************************************************************************)
(* SpecRequest: both nodes answering requests for a signature.             *)
(***************************************************************************)
NextRequest ==
    \/ Login
    \/ Logout
    \/ ReceiveUpdateRequestNoted
    \/ ReceiveSignatureRequestNoted

SpecRequest == Init /\ [][NextRequest]_vars

(***************************************************************************)
(* SpecGossip: the connection threads and the cleanup thread of one node.  *)
(***************************************************************************)
NextGossip ==
    \/ Receive
    \/ Dedup
    \/ Dispatch
    \/ Relay
    \/ Cleanup
    \/ Tick

SpecGossip == Init /\ [][NextGossip]_vars

(***************************************************************************)
(* SpecValidator: the validators of both nodes on proposals.               *)
(***************************************************************************)
InitValidator ==
    /\ ProgramInit
    /\ \E input \in ValidatorInputs :
           probe = [op |-> "input", miner |-> input.miner, state |-> input.state]

Validate == validate /\ UNCHANGED <<desktop_vars, node_vars, p2p_vars, more_vars>>

NextValidator == Validate

SpecValidator == InitValidator /\ [][NextValidator]_vars

(***************************************************************************)
(* SpecExecutor: the executor on users files and pools, called twice.      *)
(***************************************************************************)
InitExecutor ==
    /\ ProgramInit
    /\ \E input \in ExecutorInputs :
           probe = [op |-> "input", miner |-> input.miner, users |-> input.users,
                    miner_pool |-> input.miner_pool, pool |-> input.pool,
                    ts |-> input.ts]

Execute == execute /\ UNCHANGED <<desktop_vars, node_vars, p2p_vars, more_vars>>

ExecuteAgain == execute_again /\ UNCHANGED <<desktop_vars, node_vars, p2p_vars, more_vars>>

ExecuteOnTwoNodes == execute_on_two_nodes /\ UNCHANGED <<desktop_vars, node_vars, p2p_vars, more_vars>>

NextExecutor ==
    \/ Execute
    \/ ExecuteAgain
    \/ ExecuteOnTwoNodes

SpecExecutor == InitExecutor /\ [][NextExecutor]_vars

(***************************************************************************)
(* SpecPool: the desktop node mining while transactions arrive.            *)
(***************************************************************************)
NextPool ==
    \/ Login
    \/ StartMining
    \/ RebuildTimeout
    \/ SignatureTimeout
    \/ ReceiveTransaction
    \/ ReceiveSignature
    \/ ReceiveFinalUpdateSigned

SpecPool == Init /\ [][NextPool]_vars

(***************************************************************************)
(* SpecSnapshot: the states the desktop node installs, its own and those   *)
(* of a FINAL_UPDATE.                                                      *)
(***************************************************************************)
NextSnapshot ==
    \/ Login
    \/ StartMining
    \/ ReceiveSignature
    \/ ReceiveFinalUpdateAnyRewards

SpecSnapshot == Init /\ [][NextSnapshot]_vars

(***************************************************************************)
(* SpecCommittee: committee selection on hashes and rosters.               *)
(***************************************************************************)
InitCommittee ==
    /\ ProgramInit
    /\ \E input \in CommitteeInputs :
           probe = [op |-> "input", state_hash |-> input.state_hash,
                    roster |-> input.roster]

Select == select /\ UNCHANGED <<desktop_vars, node_vars, p2p_vars, more_vars>>

NextCommittee == Select

SpecCommittee == InitCommittee /\ [][NextCommittee]_vars

(***************************************************************************)
(* SpecSync: the headless node from an empty database on: constructed,      *)
(* synchronized by STATE_UPDATE, constructed again at a restart.           *)
(***************************************************************************)
EmptyStorage ==
    /\ node_users = <<>>
    /\ node_miner_pool = <<>>
    /\ node_groups = <<>>
    /\ node_blocks = <<>>
    /\ node_pending_updates = <<>>
    /\ node_collected_signatures = <<>>
    /\ node_sent = {}

InitSync ==
    /\ MainInit /\ EmptyStorage /\ P2PInit /\ probe = NoProbe
    /\ config = DefaultConfig /\ threads = NoThreads

NextSync ==
    \/ EnsureGenesis
    \/ ReceiveStateUpdateStarted

SpecSync == InitSync /\ [][NextSync]_vars

(***************************************************************************)
(* The claims.                                                             *)
(***************************************************************************)\* Blockchain.create_block(state, miner, signatures, group_id) for a proposal
\* that gathered its signatures, as finalize_block calls it; nothing of the
\* proposal's state is written to storage before or after
CreateBlock ==
    /\ get_latest_block.block_number < MaxHeight
    /\ \E state \in {StaleState, ForgedState}, miner \in RemoteMiners, ts \in Times :
          LET new_block == create_block(state, miner, OneEach(NetworkMiners),
                                        state.current_group.group_id, ts)
          IN  /\ node_blocks' = save_block(new_block)
              /\ probe' = [op           |-> "create_block",
                           proposal     |-> StateHash(state),
                           block_number |-> new_block.block_number,
                           storage      |-> compute_state_hash]
    /\ UNCHANGED <<node_users, node_miner_pool, node_groups, node_pending_updates,
                   node_collected_signatures, node_sent>>
    /\ UNCHANGED <<desktop_vars, p2p_vars, more_vars>>

NextBlock ==
    \/ ReceiveStateUpdate
    \/ CreateBlock

SpecBlock == Init /\ [][NextBlock]_vars

(***************************************************************************)
(* The headless node with its handlers on threads of their own: one thread *)
(* in _apply_remote_state, one in Storage.compute_state_hash.  Each call   *)
(* of Storage takes and releases self.lock by itself; state_lock is held   *)
(* by _apply_remote_state only.                                            *)
(***************************************************************************)
Running(t) == t \in DOMAIN threads
Start(t, locals) == threads' = (t :> locals) @@ threads
Goto(t, locals) == threads' = [threads EXCEPT ![t] = locals]
End(t) == threads' = Del(threads, t)

\* on_receive_state_update up to the first write of _apply_remote_state
InstallStart ==
    /\ ~Running("installer")
    /\ get_block_count < MaxBlocks
    /\ \E msg \in StateUpdateInputs :
          /\ msg.block.block_number > get_latest_block.block_number
          /\ Start("installer", [pc |-> "users", msg |-> msg,
                                 before |-> compute_state_hash])
    /\ UNCHANGED <<desktop_vars, node_vars, p2p_vars, probe, config>>

\* for addr, u in remote_users.items(): self.storage.upsert_user(...)
InstallUsers ==
    /\ Running("installer") /\ threads["installer"].pc = "users"
    /\ node_users' = upsert_users(threads["installer"].msg.users)
    /\ Goto("installer", [threads["installer"] EXCEPT !.pc = "group"])
    /\ UNCHANGED <<node_miner_pool, node_groups, node_blocks, node_pending_updates,
                   node_collected_signatures, node_sent>>
    /\ UNCHANGED <<desktop_vars, p2p_vars, probe, config>>

\* self.storage.save_group(...)
InstallGroup ==
    /\ Running("installer") /\ threads["installer"].pc = "group"
    /\ node_groups' = save_group(threads["installer"].msg.group)
    /\ Goto("installer", [threads["installer"] EXCEPT !.pc = "block"])
    /\ UNCHANGED <<node_users, node_miner_pool, node_blocks, node_pending_updates,
                   node_collected_signatures, node_sent>>
    /\ UNCHANGED <<desktop_vars, p2p_vars, probe, config>>

\* self.storage.save_block(msg["block"]); the thread ends.  A reader that is
\* under way may from here on have seen the store after the install
InstallBlock ==
    /\ Running("installer") /\ threads["installer"].pc = "block"
    /\ LET saved == save_block(threads["installer"].msg.block)
           after == Hash([users |-> node_users, miner_pool |-> node_miner_pool,
                          latest_group |-> get_latest_group,
                          latest_block_hash |-> saved[Max(DOMAIN saved)].state_hash])
       IN  /\ node_blocks' = saved
           /\ threads' = IF Running("reader")
                         THEN "reader" :> [threads["reader"] EXCEPT
                                              !.whole = @ \cup {after}]
                         ELSE NoThreads
    /\ UNCHANGED <<node_users, node_miner_pool, node_groups, node_pending_updates,
                   node_collected_signatures, node_sent>>
    /\ UNCHANGED <<desktop_vars, p2p_vars, probe, config>>

\* compute_state_hash: users = self.get_all_users().  "whole" keeps the hashes
\* of the store as it was with no install under way, since the call began
ReadUsers ==
    /\ ~Running("reader")
    /\ probe = NoProbe
    /\ Start("reader", [pc |-> "miner_pool", users |-> node_users,
                        miner_pool |-> <<>>, latest_group |-> get_latest_group,
                        whole |-> {IF Running("installer")
                                   THEN threads["installer"].before
                                   ELSE compute_state_hash}])
    /\ UNCHANGED <<desktop_vars, node_vars, p2p_vars, probe, config>>

\* miner_pool = self.get_miner_pool()
ReadMinerPool ==
    /\ Running("reader") /\ threads["reader"].pc = "miner_pool"
    /\ Goto("reader", [threads["reader"] EXCEPT !.pc = "latest_group",
                                                !.miner_pool = node_miner_pool])
    /\ UNCHANGED <<desktop_vars, node_vars, p2p_vars, probe, config>>

\* latest_group = self.get_latest_group()
ReadGroup ==
    /\ Running("reader") /\ threads["reader"].pc = "latest_group"
    /\ Goto("reader", [threads["reader"] EXCEPT !.pc = "latest_block",
                                                !.latest_group = get_latest_group])
    /\ UNCHANGED <<desktop_vars, node_vars, p2p_vars, probe, config>>

\* latest_block = self.get_latest_block(), and the hash of the four reads
ReadBlock ==
    /\ Running("reader") /\ threads["reader"].pc = "latest_block"
    /\ probe' = [op     |-> "compute_state_hash",
                 result |-> Hash([users |-> threads["reader"].users,
                                  miner_pool |-> threads["reader"].miner_pool,
                                  latest_group |-> threads["reader"].latest_group,
                                  latest_block_hash |-> get_latest_block.state_hash]),
                 whole  |-> threads["reader"].whole]
    /\ End("reader")
    /\ UNCHANGED <<desktop_vars, node_vars, p2p_vars, config>>

NextReader ==
    \/ InstallStart
    \/ InstallUsers
    \/ InstallGroup
    \/ InstallBlock
    \/ ReadUsers
    \/ ReadMinerPool
    \/ ReadGroup
    \/ ReadBlock

SpecReader == Init /\ [][NextReader]_vars

(***************************************************************************)
(* The desktop node with on_receive_signature on the connection threads    *)
(* that _run_server starts, one for each inbound connection; the handler   *)
(* takes no lock.  A thread is in "threads" from the point where it found  *)
(* the threshold reached.                                                  *)
(***************************************************************************)
HandlerThreads == {"c1", "c2"}
Other(t) == IF t = "c1" THEN "c2" ELSE "c1"

\* history: the FINAL_UPDATE envelopes handed to broadcast, each with an id
\* of its own from create_message
Broadcasts == IF probe.op = "FINAL_UPDATE" THEN probe.broadcasts ELSE EmptyBag

\* the membership test, the append, the test of the length and
\* self.pending_updates.get(state_hash); final_payload holds the list itself
append_signature(t) ==
    /\ ~Running(t)
    /\ \E state_hash \in DOMAIN collected_signatures :
        \E signer \in SignerInputs(collected_signatures[state_hash]) :
          LET sigs == collected_signatures[state_hash] (+) Copies(signer, 1) IN
          /\ collected_signatures' = [collected_signatures EXCEPT ![state_hash] = sigs]
          /\ IF /\ BagCardinality(sigs) >= SIGNATURES_REQUIRED
                /\ state_hash \in DOMAIN pending_updates
             THEN Start(t, [pc |-> "broadcast", state_hash |-> state_hash,
                            update |-> pending_updates[state_hash],
                            signatures |-> sigs])
             ELSE UNCHANGED threads
    /\ UNCHANGED <<users, miner_pool, current_group, tx_executed, tx_pool, blocks,
                   pending_updates, is_mining, signature_timer, rebuild_timer, addr,
                   sent, cycles>>
    /\ UNCHANGED <<signed, abandoned, event, install, node_vars, p2p_vars, probe, config>>

\* the list a thread's final_payload refers to, as it is now
ListOf(t) ==
    IF threads[t].state_hash \in DOMAIN collected_signatures
    THEN collected_signatures[threads[t].state_hash]
    ELSE threads[t].signatures

\* env = self.p2p.create_message("FINAL_UPDATE", ...); self.p2p.broadcast(env)
broadcast_final_update(t) ==
    /\ Running(t) /\ threads[t].pc = "broadcast"
    /\ sent' = sent \cup
          {FinalUpdate(threads[t].state_hash, threads[t].update, ListOf(t))}
    /\ probe' = [op |-> "FINAL_UPDATE",
                 broadcasts |-> Broadcasts (+) Copies(threads[t].state_hash, 1)]
    /\ Goto(t, [threads[t] EXCEPT !.pc = "apply"])
    /\ UNCHANGED <<users, miner_pool, current_group, tx_executed, tx_pool, blocks,
                   pending_updates, collected_signatures, is_mining, signature_timer,
                   rebuild_timer, addr, cycles>>
    /\ UNCHANGED <<signed, abandoned, event, install, node_vars, p2p_vars, config>>

\* self.apply_final_state(update["state"], self.collected_signatures[state_hash]);
\* the lookup raises KeyError once another thread deleted the entry, and the
\* connection thread ends in the except branch of _handle_connection
apply_locally(t) ==
    /\ Running(t) /\ threads[t].pc = "apply"
    /\ IF threads[t].state_hash \notin DOMAIN collected_signatures
       THEN End(t) /\ UNCHANGED <<files, signature_timer, rebuild_timer>>
       ELSE /\ Len(blocks) < MaxBlocks
            /\ \E ts \in Times :
                  apply_final_state(threads[t].update,
                                    collected_signatures[threads[t].state_hash], ts)
            /\ Goto(t, [threads[t] EXCEPT !.pc = "del"])
    /\ UNCHANGED <<pending_updates, collected_signatures, is_mining, addr, sent, cycles>>
    /\ UNCHANGED <<signed, abandoned, event, install, node_vars, p2p_vars, probe, config>>

\* del self.pending_updates[state_hash]; del self.collected_signatures[state_hash];
\* the first raises KeyError once another thread deleted the entry.  The list
\* lives on in the final_payload of the other thread
delete_proposal(t) ==
    /\ Running(t) /\ threads[t].pc = "del"
    /\ LET h == threads[t].state_hash IN
       IF h \notin DOMAIN pending_updates
       THEN End(t) /\ UNCHANGED <<pending_updates, collected_signatures>>
       ELSE /\ pending_updates' = Del(pending_updates, h)
            /\ collected_signatures' = Del(collected_signatures, h)
            /\ threads' = IF Running(Other(t))
                          THEN Other(t) :> [threads[Other(t)] EXCEPT
                                               !.signatures = ListOf(Other(t))]
                          ELSE NoThreads
    /\ UNCHANGED <<files, is_mining, signature_timer, rebuild_timer, addr, sent, cycles>>
    /\ UNCHANGED <<signed, abandoned, event, install, node_vars, p2p_vars, probe, config>>

SigAppend == \E t \in HandlerThreads : append_signature(t)
SigBroadcast == \E t \in HandlerThreads : broadcast_final_update(t)
SigApply == \E t \in HandlerThreads : apply_locally(t)
SigDelete == \E t \in HandlerThreads : delete_proposal(t)

NextFinalize ==
    \/ Login
    \/ StartMining
    \/ SigAppend
    \/ SigBroadcast
    \/ SigApply
    \/ SigDelete

SpecFinalize == Init /\ [][NextFinalize]_vars

(***************************************************************************)
(* SpecLoop: the mining loop of the desktop node with its timers.  A timer *)
(* of Qt that is active fires: weak fairness of the two timeouts.  The     *)
(* buttons and the network are not fair.                                   *)
(***************************************************************************)
ReceiveMalformedTransaction == on_receive_transaction(MalformedTx) /\ Quiet

NextLoop ==
    \/ Login
    \/ Logout
    \/ ReceiveTransaction
    \/ ReceiveMalformedTransaction
    \/ StartMining
    \/ StopMining
    \/ RebuildTimeout
    \/ SignatureTimeout
    \/ UpdateMineWait

SpecLoop ==
    /\ Init
    /\ [][NextLoop]_vars
    /\ WF_vars(RebuildTimeout)
    /\ WF_vars(SignatureTimeout)

(***************************************************************************)
(* The desktop node with on_receive_transaction on the connection threads: *)
(* read_json(TX_POOL_FILE), the test of the id, pool[tx_id] = tx,          *)
(* write_json(TX_POOL_FILE, pool), with no lock around the file.           *)
(***************************************************************************)
\* the TRANSACTION messages of the network: three ids
PoolTxInputs == {tx \in ExecutorTxs : tx.tx_id \in {"t1", "t5", "t6"}}

HasId(pool, id) == \E i \in 1..Len(pool) : pool[i].tx_id = id

\* history: the ids of the transactions a handler accepted and wrote
Accepted == IF probe.op = "TRANSACTION" THEN probe.accepted ELSE {}

\* pool = read_json(TX_POOL_FILE) and the test tx_id not in pool; a handler
\* that finds the id returns
load_tx_pool(t, tx) ==
    /\ ~Running(t)
    /\ \A u \in DOMAIN threads : threads[u].tx.tx_id # tx.tx_id
    /\ IF HasId(tx_pool, tx.tx_id)
       THEN UNCHANGED threads
       ELSE Start(t, [pc |-> "write", tx |-> tx, pool |-> tx_pool])
    /\ UNCHANGED <<main_vars, signed, abandoned, event, install, node_vars, p2p_vars,
                   probe, config>>

\* pool[tx_id] = tx; write_json(TX_POOL_FILE, pool): the file becomes the
\* handler's copy with its transaction added
store_tx(t) ==
    /\ Running(t) /\ threads[t].pc = "write"
    /\ tx_pool' = Append(threads[t].pool, threads[t].tx)
    /\ probe' = [op |-> "TRANSACTION",
                 accepted |-> Accepted \cup {threads[t].tx.tx_id}]
    /\ End(t)
    /\ UNCHANGED <<users, miner_pool, current_group, tx_executed, blocks,
                   pending_updates, collected_signatures, is_mining, signature_timer,
                   rebuild_timer, addr, sent, cycles>>
    /\ UNCHANGED <<signed, abandoned, event, install, node_vars, p2p_vars, config>>

TxRead == \E t \in HandlerThreads, tx \in PoolTxInputs : load_tx_pool(t, tx)
TxWrite == \E t \in HandlerThreads : store_tx(t)

NextTxThreads ==
    \/ TxRead
    \/ TxWrite

SpecTxThreads == Init /\ [][NextTxThreads]_vars

(***************************************************************************)
(* SpecOrigin: the node broadcasts an envelope of its own (the             *)
(* FINAL_UPDATE of a miner), and its peers pass it back.                   *)
(***************************************************************************)
\* the id create_message gives the node's envelope: a hash over its body,
\* unlike the id of any envelope of a peer
OwnId == MaxEnvelopes + 1
OwnEnvelope == [id |-> OwnId, sender |-> node_id, broadcast |-> TRUE]

Originated == {e \in BagToSet(gossip) : e.op = "originate"}

\* broadcast(env) without the entry in seen_messages
originate_unseen ==
    /\ Originated = {}
    /\ UNCHANGED seen_messages
    /\ gossip' = gossip (+) SetToBag({[op |-> "originate", id |-> OwnId,
                                       from |-> node_id, at |-> clock,
                                       to |-> broadcast_targets(node_id)]})
    /\ UNCHANGED <<peers, clock, conn>>

\* env = create_message(..., broadcast=True); broadcast(env): the id enters
\* seen_messages, then the envelope goes to every peer
originate ==
    /\ Originated = {}
    /\ seen_messages' = IF OwnId \in DOMAIN seen_messages
                        THEN seen_messages
                        ELSE (OwnId :> clock) @@ seen_messages
    /\ gossip' = gossip (+) SetToBag({[op |-> "originate", id |-> OwnId,
                                       from |-> node_id, at |-> clock,
                                       to |-> broadcast_targets(node_id)]})
    /\ UNCHANGED <<peers, clock, conn>>

Originate == originate /\ GossipQuiet

\* a peer that was sent the envelope passes it on to this node
ReceiveBack ==
    \E c \in Connections, from \in PeerIds :
        /\ Originated # {}
        /\ Receipts < MaxReceipts
        /\ recv(c, OwnEnvelope, from)
        /\ GossipQuiet

NextOrigin ==
    \/ Originate
    \/ ReceiveBack
    \/ Dedup
    \/ Dispatch
    \/ Relay
    \/ Cleanup
    \/ Tick

SpecOrigin == Init /\ [][NextOrigin]_vars

TestSavePort ==
    /\ \E port \in PortInputs : test_save_port(port)
    /\ UNCHANGED <<desktop_vars, node_vars, p2p_vars, threads>>

SavePort ==
    /\ \E port \in SpinInputs : save_port(port)
    /\ UNCHANGED <<desktop_vars, node_vars, p2p_vars, threads>>

SaveSettings ==
    /\ \E new_port \in PortInputs : save_settings(new_port)
    /\ UNCHANGED <<desktop_vars, node_vars, p2p_vars, threads>>

NextConfig ==
    \/ TestSavePort
    \/ SavePort
    \/ SaveSettings

SpecConfig == Init /\ [][NextConfig]_vars

\* C1 (SpecNode): the block numbers of the store are 0..N without a gap, and
\* every block n >= 1 has the state hash of block n-1 as its prev_hash and
\* the hash of its own header fields as its combined_hash.
C1_ChainWellFormed ==
    LET N == get_block_count - 1
    IN  /\ DOMAIN node_blocks = 0..N
        /\ \A n \in 1..N :
            /\ node_blocks[n].prev_hash = node_blocks[n - 1].state_hash
            /\ node_blocks[n].combined_hash = Hash(block_content(node_blocks[n]))

\* C2 (Spec): a step of the miner that broadcasts FINAL_UPDATE for h holds
\* signatures for h of SIGNATURES_REQUIRED or more distinct members of the
\* committee of h in the active group; repeated signers and signers outside
\* the committee do not count.
C2_FinalizesOnQuorumOnly ==
    [][\A m \in sent' \ sent :
          m.type = "FINAL_UPDATE" =>
            Cardinality(BagToSet(m.signatures) \cap
                        get_selected_miners(m.state_hash, current_group.miners))
                >= SIGNATURES_REQUIRED]_vars

\* C3 (SpecFinal): a FINAL_UPDATE whose list has fewer than
\* SIGNATURES_REQUIRED signatures, or names a signer outside the committee
\* of the receiver's group, leaves users, miner pool, group, executed
\* transactions, blocks and pool as they were.
C3_RejectedFinalUpdateChangesNothing ==
    [][(event'.op = "FINAL_UPDATE" /\ (event'.short \/ event'.foreign))
          => UNCHANGED files]_vars

\* C3, its case: a node that holds a block has handled a FINAL_UPDATE with
\* enough signatures, one of them of a signer outside its committee.
C3_Witness ==
    /\ event.op = "FINAL_UPDATE"
    /\ event.foreign
    /\ ~event.short
    /\ Len(blocks) > 0

\* C4 (SpecFinal): a FINAL_UPDATE that is installed carries signatures of
\* SIGNATURES_REQUIRED or more distinct signers.
C4_NoInstallOnRepeatedSigners ==
    [][(event'.op = "FINAL_UPDATE" /\ blocks' # blocks)
          => Cardinality(BagToSet(blocks'[Len(blocks')].signatures))
                >= SIGNATURES_REQUIRED]_vars

\* C5 (SpecFinal): a FINAL_UPDATE changes the files only if its hash is the
\* hash of its state and the node does not hold a block of that state yet.
C5_InstallsOnlyMatchingAndNew ==
    [][(event'.op = "FINAL_UPDATE" /\ files' # files)
          => /\ event'.hash_ok
             /\ \A i \in 1..Len(blocks) :
                    blocks[i].state_hash # blocks'[Len(blocks')].state_hash]_vars

\* C6 (SpecInstall): while a call of apply_final_state is under way or has
\* failed, the files it replaces are all as before the call or all as the
\* new state has them.
C6_InstallAtomic ==
    install.pc # "idle" =>
        \/ Snapshot = install.before
        \/ Snapshot = <<install.state.users, install.state.miner_pool,
                        install.state.current_group, install.state.tx_executed,
                        install.before[5] + 1>>

\* C7 (Spec): a proposal whose signature timer expired is never finalized.
C7_ExpiredNeverFinalized ==
    \A m \in sent :
        m.type = "FINAL_UPDATE" =>
            [state_hash |-> m.state_hash, why |-> "expired"] \notin abandoned

\* C8 (Spec): a proposal that was pending when a valid FINAL_UPDATE for
\* another hash was installed is never finalized.
C8_PreemptedNeverFinalized ==
    \A m \in sent :
        m.type = "FINAL_UPDATE" =>
            [state_hash |-> m.state_hash, why |-> "preempted"] \notin abandoned

\* C9 (SpecSigner): between two installs the node signs at most one hash.
C9_OneHashPerRound == Cardinality(signed) <= 1

\* C10 (SpecSigner): a step that sends a SIGNATURE for h is a step of a node
\* whose wallet address is in the committee of h in its own group.
C10_SignsAsLocalCommitteeMember ==
    [][\A m \in sent' \ sent :
          m.type = "SIGNATURE" =>
            /\ addr # None
            /\ addr \in get_selected_miners(m.state_hash, current_group.miners)]_vars

\* the transactions of S'.tx_executed other than the reward, as a pool
RECURSIVE SeqOfSet(_)
SeqOfSet(S) ==
    IF S = {} THEN <<>>
    ELSE LET x == CHOOSE y \in S : TRUE IN <<x>> \o SeqOfSet(S \ {x})

ReplayPool(state) ==
    SeqOfSet({state.tx_executed[id] :
                id \in {i \in DOMAIN state.tx_executed :
                            state.tx_executed[i].type # "reward"}})

\* C11 (SpecSigner): a step that sends a SIGNATURE for h is a step of a node
\* on whose own files the executor, run for some miner on the transactions
\* of the proposal, gives the state of hash h.
C11_SignsOnlyReplayedState ==
    [][\A m \in sent' \ sent :
          m.type = "SIGNATURE" =>
            \E miner \in RemoteMiners, ts \in Times :
                LET r == execute_transactions(miner, users, current_group, miner_pool,
                                              ReplayPool(m.state_hash.sha256), ts)
                IN  r.ok /\ StateHash(r.state) = m.state_hash]_vars

\* C12 (SpecRequest): a request for a signature whose hash is not the hash
\* of its state, or whose proposal the validator refuses, sends nothing and
\* changes nothing in either node.
C12_RefusedRequestChangesNothing ==
    [][(/\ event'.op \in {"UPDATE_REQUEST", "SIGNATURE_REQUEST"}
        /\ (~event'.hash_ok \/ ~event'.valid))
          => UNCHANGED <<main_vars, node_vars>>]_vars

\* C14 (SpecGossip): whatever the interleaving of the connection threads and
\* the cleanup thread, two envelopes with the same id that both pass the test
\* of seen_messages, that are both handed to the handler, or that are both
\* relayed, passed the test more than SEEN_TTL seconds apart; a copy that
\* arrives within SEEN_TTL is dropped.
C14_OncePerTTL ==
    \A e1 \in BagToSet(gossip) :
        e1.op \in {"accept", "handle", "relay"} =>
            /\ CopiesIn(e1, gossip) = 1
            /\ \A e2 \in BagToSet(gossip) :
                   (e2.op = e1.op /\ e2.id = e1.id /\ e2 # e1 /\ e2.at >= e1.at)
                       => e2.at - e1.at > SEEN_TTL

\* an envelope was handled and relayed, and a copy that came within SEEN_TTL
\* was dropped; after the entry expired the id was accepted again
C14_Witness ==
    \E h \in BagToSet(gossip), r \in BagToSet(gossip), x \in BagToSet(gossip),
       a \in BagToSet(gossip) :
        /\ h.op = "handle" /\ r.op = "relay" /\ x.op = "drop" /\ a.op = "accept"
        /\ r.id = h.id /\ x.id = h.id /\ a.id = h.id
        /\ r.at = h.at
        /\ x.at >= h.at /\ x.at - h.at <= SEEN_TTL
        /\ a.at - h.at > SEEN_TTL

\* C15 (SpecGossip): a relay sends neither to the node the envelope came from
\* nor to the relaying node itself.
C15_RelayExcludesImmediateSender ==
    \A e \in BagToSet(gossip) :
        e.op = "relay" => (e.from \notin e.to /\ node_id \notin e.to)

\* C13 (SpecValidator): a validator accepts a proposal exactly when it holds
\* one reward entry, that entry pays the declared miner 100 coins, and the
\* miner is in the miners of the proposal's group.
C13_ValidatorAcceptsIff ==
    probe.op = "validated" =>
        LET executed == probe.state.tx_executed
            rewards  == {id \in DOMAIN executed : executed[id].type = "reward"}
            accepted == /\ Cardinality(rewards) = 1
                        /\ \A id \in rewards : /\ executed[id].to = probe.miner
                                               /\ executed[id].amount = 100 * MICRO
                        /\ probe.miner \in DOMAIN probe.state.current_group.miners
        IN  probe.desktop = accepted /\ probe.headless = accepted

\* C18 (SpecExecutor): the executor called twice on the same miner and pool
\* returns equal proposed states, and leaves the stored users as they were.
C18_ExecutorPure ==
    probe.op = "twice" =>
        /\ probe.second.state = probe.first.state
        /\ probe.first.users_file = probe.users
        /\ probe.second.users_file = probe.users

\* C20 (SpecExecutor): on users with no negative balance the executor
\* proposes no negative balance, whatever the amounts and fees in the pool.
C20_NoNegativeBalance ==
    (probe.op \in {"once", "twice"} /\ probe.first.ok) =>
        \A a \in DOMAIN probe.first.state.users :
            probe.first.state.users[a].balance >= 0

C19_UnfinalizedRoundLeavesFiles ==
    (blocks = <<>> /\ \E x \in abandoned : x.why = "expired") =>
        /\ \/ users = <<>> /\ current_group = FreshGroup
           \/ users = NetworkUsers /\ current_group = NetworkGroup
        /\ miner_pool = <<>>

\* C21 (SpecExecutor): in the proposed state the nonce of every user is the
\* nonce the user had when the pool was replayed (0 for an account the round
\* opened) plus the number of entries of tx_executed, other than the reward,
\* that the user sent.
C21_NonceCountsExecuted ==
    (probe.op \in {"once", "twice"} /\ probe.first.ok) =>
        \A a \in DOMAIN probe.first.state.users :
            LET executed == probe.first.state.tx_executed
                before   == IF a \in DOMAIN probe.first.users_file
                            THEN probe.first.users_file[a].nonce
                            ELSE 0
                sentby   == {id \in DOMAIN executed :
                                executed[id].type # "reward" /\ executed[id].from = a}
            IN  probe.first.state.users[a].nonce = before + Cardinality(sentby)

\* C22 (SpecExecutor): the users that the pool is replayed on are the stored
\* users with life one less, without those whose life came to 0 or below;
\* no executed transaction is from a removed user; when the miner is among
\* the removed, the executor returns no proposed state.
C22_LifeDecrementedBeforeReplay ==
    probe.op \in {"once", "twice"} =>
        LET replayed == probe.first.users_file
            executed == probe.first.state.tx_executed
        IN  /\ DOMAIN replayed = {a \in DOMAIN probe.users : probe.users[a].life - 1 > 0}
            /\ \A a \in DOMAIN replayed :
                   replayed[a] = [probe.users[a] EXCEPT !.life = probe.users[a].life - 1]
            /\ \A id \in DOMAIN executed :
                   executed[id].type # "reward" => executed[id].from \in DOMAIN replayed
            /\ probe.miner \notin DOMAIN replayed =>
                   ~probe.first.ok /\ probe.first.state = EmptyState

\* the miner was on its last turn, and a transaction of its own was in the pool
C22_Witness ==
    /\ probe.op = "once"
    /\ probe.users[probe.miner].life = 1
    /\ \E i \in 1..Len(probe.pool) : probe.pool[i].from = probe.miner
    /\ ~probe.first.ok

\* C23 (SpecSnapshot): the state a node has installed, its own proposal or
\* that of a FINAL_UPDATE, holds exactly one reward entry, of 100 coins.
C23_InstalledSnapshotHasOneReward ==
    blocks # <<>> =>
        LET rewards == {id \in DOMAIN tx_executed : tx_executed[id].type = "reward"}
        IN  /\ Cardinality(rewards) = 1
            /\ \A id \in rewards : tx_executed[id].amount = 100 * MICRO

Range(list) == {list[i] : i \in 1..Len(list)}

\* C24 (SpecCommittee): on a roster of at most 100 addresses the selection
\* is the whole roster; on a larger one it is 100 addresses, no two the
\* same, all of the roster.
C24_CommitteeBounds ==
    probe.op = "selected" =>
        \A committee \in {probe.desktop, probe.headless} :
            IF Len(probe.roster) <= 100
            THEN committee = probe.roster
            ELSE /\ Len(committee) = 100
                 /\ Cardinality(Range(committee)) = 100
                 /\ Range(committee) \subseteq Range(probe.roster)

\* a selection from a roster of more than 100 that leaves out its first address
C24_Witness ==
    /\ probe.op = "selected"
    /\ Len(probe.roster) > 100
    /\ probe.roster[1] \notin Range(probe.desktop)

\* C25 (SpecCommittee): the committee of a hash and a roster is the same set
\* of addresses in whatever order the roster's keys are presented.
C25_CommitteeOrderIndependent ==
    probe.op = "selected" =>
        /\ Range(probe.desktop_reordered) = Range(probe.desktop)
        /\ Range(probe.headless_reordered) = Range(probe.headless)

\* C26 (SpecExecutor): two nodes with the same users, group, miner pool and
\* tx pool and the same miner propose the same state, with the same hash,
\* at whatever second each of them runs.
C26_SameProposalOnEveryNode ==
    (probe.op = "two_nodes" /\ probe.here.ok /\ probe.there.ok) =>
        /\ probe.there.state = probe.here.state
        /\ probe.there.state_hash = probe.here.state_hash

\* C27 (SpecExecutor): when the miner pool holds 1000 entries or more after
\* the replay, the proposed state has a group with the next group_id, miners
\* from the pool, and an empty miner pool.
C27_GroupCreatedAtThreshold ==
    (probe.op \in {"once", "twice"} /\ probe.first.ok) =>
        LET joined == {a \in DOMAIN probe.users :
                          \E id \in DOMAIN probe.first.state.tx_executed :
                              /\ probe.first.state.tx_executed[id].type = "join_pool"
                              /\ probe.first.state.tx_executed[id].from = a}
            pool   == DOMAIN probe.miner_pool \cup joined
        IN  IF Cardinality(pool) >= 1000
            THEN /\ probe.first.state.current_group.group_id = NetworkGroup.group_id + 1
                 /\ DOMAIN probe.first.state.current_group.miners \subseteq pool
                 /\ DOMAIN probe.first.state.miner_pool = {}
            ELSE /\ probe.first.state.current_group = NetworkGroup
                 /\ DOMAIN probe.first.state.miner_pool = pool

\* C28 (SpecSync): genesis initialisation on an empty store leaves exactly
\* block 0, with prev_hash, state_hash and combined_hash of zeros and miner
\* GENESIS, a chain that verify_chain passes; on a store that holds blocks it
\* adds and changes no block.
C28_GenesisOnce ==
    [][event'.op = "GENESIS" =>
          IF DOMAIN node_blocks = {}
          THEN /\ DOMAIN node_blocks' = {0}
               /\ node_blocks'[0].block_number = 0
               /\ node_blocks'[0].prev_hash = ZeroHash
               /\ node_blocks'[0].state_hash = ZeroHash
               /\ node_blocks'[0].combined_hash = ZeroHash
               /\ node_blocks'[0].miner = GENESIS
               /\ verify_chain(node_blocks') = "True"
          ELSE node_blocks' = node_blocks]_vars

\* genesis initialisation has run again on a store of several blocks
C28_Witness ==
    /\ event.op = "GENESIS"
    /\ Cardinality(DOMAIN node_blocks) > 1
    /\ 0 \in DOMAIN node_blocks

\* the chain with another state_hash in block n
Tampered(chain, n) ==
    [chain EXCEPT ![n].state_hash = Hash([tampered |-> chain[n].state_hash])]

\* C29 (SpecNode): on a chain that verify_chain passes, another state_hash in
\* any one block makes verify_chain fail.
C29_TamperedStateHashFails ==
    verify_chain(node_blocks) = "True" =>
        \A n \in DOMAIN node_blocks :
            verify_chain(Tampered(node_blocks, n)) = "False"

\* C30 (SpecSync): a STATE_UPDATE changes users, groups or blocks only when
\* its block number is above the latest local one and the chain with its
\* block passes verify_chain.
C30_InstallsOnlyLinkedHigherBlock ==
    [][(event'.op = "none" /\ <<node_users, node_groups, node_blocks>>' #
                              <<node_users, node_groups, node_blocks>>) =>
          /\ Max(DOMAIN node_blocks') > Max(DOMAIN node_blocks)
          /\ verify_chain(node_blocks') = "True"]_vars

\* C31 (SpecConfig): whichever entry point saves a port, a port outside
\* 1024..65535 leaves the stored configuration as it was, and a port inside the
\* range is the port read back afterwards.
C31_PortSavedOnlyInRange ==
    [][probe'.op = "save_port" /\ probe' # probe =>
          IF probe'.port \in PortRange
          THEN stored_port(probe'.entry, config') = probe'.port
          ELSE config' = config]_vars

\* C32 (Spec): between a stop of mining and the next start, no step of the node
\* broadcasts an UPDATE_REQUEST, and none broadcasts a FINAL_UPDATE or appends
\* a block for a proposal the node made before the stop.
C32_StoppedMinerIsSilent ==
    [][~is_mining /\ ~is_mining' =>
          /\ \A m \in sent' \ sent : m.type \notin {"UPDATE_REQUEST", "FINAL_UPDATE"}
          /\ \A h \in DOMAIN pending_updates :
                 h \in DOMAIN pending_updates' \/ blocks' = blocks]_vars

\* C33 (SpecNode): a step that changes the block table only adds the block
\* numbered latest + 1 whose prev_hash is the state_hash of the latest block,
\* and leaves every stored block as it was; a block with another number or
\* another prev_hash is refused and the table stays unchanged.
C33_AppendOnlyLinked ==
    [][node_blocks' # node_blocks =>
          /\ \A n \in DOMAIN node_blocks :
                 n \in DOMAIN node_blocks' /\ node_blocks'[n] = node_blocks[n]
          /\ \A n \in DOMAIN node_blocks' \ DOMAIN node_blocks :
                 /\ n = get_latest_block.block_number + 1
                 /\ node_blocks'[n].prev_hash = get_latest_block.state_hash]_vars

\* C34 (SpecBlock): the state_hash of a block made for a signed proposal is the
\* hash h of that proposal, the one the committee signed, and not the hash of
\* what the node's storage held when the block was made.
C34_BlockCarriesProposalHash ==
    probe.op = "create_block" =>
        node_blocks[probe.block_number].state_hash = probe.proposal

\* C35 (SpecReader): a state hash computed while another thread installs a
\* remote state is the hash of the store as it was entirely before or
\* entirely after an install, never of a mix of the two.
C35_HashOfWholeStore ==
    probe.op = "compute_state_hash" => probe.result \in probe.whole

\* C36 (SpecFinalize): however the threads that handle the SIGNATURE messages
\* of a proposal h interleave around the threshold, at most one FINAL_UPDATE
\* is broadcast for h and at most one block is appended for it.
C36_FinalizedAtMostOnce ==
    /\ \A h \in BagToSet(Broadcasts) : CopiesIn(h, Broadcasts) <= 1
    /\ \A i, j \in 1..Len(blocks) :
          blocks[i].state_hash = blocks[j].state_hash => i = j

\* C37 (SpecLoop): while the mining toggle is on the loop is never stuck:
\* whenever mining is on and no timer is pending (as after a mine attempt
\* that failed), eventually a timer that leads to the next attempt is pending
\* or mining has been switched off.
C37_LoopNeverStuck ==
    (is_mining /\ ~signature_timer /\ ~rebuild_timer)
        ~> (~is_mining \/ signature_timer \/ rebuild_timer)

RECURSIVE SumOver(_, _)
SumOver(f, S) ==
    IF S = {} THEN 0
    ELSE LET x == CHOOSE y \in S : TRUE IN f[x] + SumOver(f, S \ {x})

TotalBalance(us) == SumOver([a \in DOMAIN us |-> us[a].balance], DOMAIN us)

FeesOf(executed) ==
    SumOver([id \in DOMAIN executed |->
                IF executed[id].type = "reward" THEN 0 ELSE executed[id].fee],
            DOMAIN executed)

\* the transactions the loop of the executor found valid, by id, before the
\* reward is entered
executed_by_loop(input, users_file) ==
    ExecutePool([users |-> users_file, miner_pool |-> input.miner_pool,
                 executed |-> <<>>], input.pool, 1, input.ts).executed

\* C38 (SpecExecutor): fees are burned: the balances of the proposed state add
\* up to the balances before the run, less the fees of the transactions the
\* run executed, less the balances of the users that life expiry removed,
\* plus the reward of 100; and a pool of one transfer changes the balances by
\* exactly that: the sender pays amount and fee, the receiver gets the
\* amount, the miner the reward, and nobody gets the fee.
C38_FeesBurned ==
    (probe.op = "once" /\ probe.first.ok) =>
        LET before   == probe.users
            after    == probe.first.state.users
            expired  == DOMAIN before \ DOMAIN probe.first.users_file
            executed == executed_by_loop(probe, probe.first.users_file)
        IN  /\ TotalBalance(after) =
                    TotalBalance(before)
                    - FeesOf(executed)
                    - SumOver([a \in expired |-> before[a].balance], expired)
                    + REWARD * MICRO
            /\ \A id \in DOMAIN executed :
                  (Len(probe.pool) = 1 /\ executed[id].type = "transfer") =>
                      LET tx == executed[id] IN
                      \A a \in DOMAIN after :
                          after[a].balance =
                              before[a].balance
                              + (IF a = tx.to THEN tx.amount ELSE 0)
                              - (IF a = tx.from THEN tx.amount + tx.fee ELSE 0)
                              + (IF a = probe.miner THEN REWARD * MICRO ELSE 0)

\* a run that executed a transfer with a fee, and one that lost a user to
\* life expiry
C38_Witness ==
    /\ probe.op = "once" /\ probe.first.ok
    /\ \E id \in DOMAIN executed_by_loop(probe, probe.first.users_file) :
          LET tx == executed_by_loop(probe, probe.first.users_file)[id]
          IN  tx.type = "transfer" /\ tx.fee > 0 /\ tx.amount > 0
    /\ Len(probe.pool) = 2

\* C39 (SpecTxThreads): the pool holds no id twice, and once the handlers of
\* concurrent TRANSACTION messages with distinct ids have returned, every
\* transaction a handler accepted is in the pool.
C39_PoolKeepsAccepted ==
    /\ \A i, j \in 1..Len(tx_pool) : tx_pool[i].tx_id = tx_pool[j].tx_id => i = j
    /\ threads = NoThreads => \A id \in Accepted : HasId(tx_pool, id)

\* C40 (SpecOrigin): an envelope the node broadcast itself is never handed to
\* the node's own handler when a peer passes it back within SEEN_TTL seconds
\* of the broadcast; so the FINAL_UPDATE of a miner that installed its state
\* locally does not reach on_receive_final_update and install it again.
C40_OwnEnvelopeNotHandled ==
    \A e \in BagToSet(gossip), o \in Originated :
        (e.id = OwnId /\ e.op \in {"accept", "handle"}) => e.at - o.at > SEEN_TTL

\* the envelope came back within the TTL and was dropped
C40_Witness ==
    \E e \in BagToSet(gossip), o \in Originated :
        e.id = OwnId /\ e.op = "drop" /\ e.at - o.at <= SEEN_TTL /\ e.at > o.at

====
